---- MODULE Spec2Model ----
(***************************************************************************)
(* ParaBank registration test automation: the outcome detector            *)
(* (RegistrationPage.isRegistrationSuccessful), the error collector       *)
(* (RegistrationPage.getErrorMessages) and the bounded retry loop of the  *)
(* Playwright test "TC 001", modelled from the JavaScript sources.        *)
(*                                                                         *)
(* JavaScript strings are sequences of one-character strings, so that     *)
(* includes(), toLowerCase() and trim() are computed, not assumed.        *)
(***************************************************************************)
EXTENDS Integers, Sequences, FiniteSets, TLC

(***************************************************************************)
(* String literals of the program and of the pages it observes.           *)
(***************************************************************************)

\* "https://parabank.parasoft.com/parabank"
URL_home ==
  << "h", "t", "t", "p", "s", ":", "/", "/", "p", "a", "r", "a", "b", "a",
     "n", "k", ".", "p", "a", "r", "a", "s", "o", "f", "t", ".", "c", "o",
     "m", "/", "p", "a", "r", "a", "b", "a", "n", "k" >>

\* "<home>/register.htm"
URL_register ==
  URL_home \o << "/", "r", "e", "g", "i", "s", "t", "e", "r", ".", "h", "t", "m" >>

\* "<home>/overview.htm"
URL_overview ==
  URL_home \o << "/", "o", "v", "e", "r", "v", "i", "e", "w", ".", "h", "t", "m" >>

\* "<home>/index.htm"
URL_index ==
  URL_home \o << "/", "i", "n", "d", "e", "x", ".", "h", "t", "m" >>

\* "<home>/register.htm?next=account"
URL_registerAccount ==
  URL_home \o << "/", "r", "e", "g", "i", "s", "t", "e", "r", ".", "h", "t", "m", "?",
     "n", "e", "x", "t", "=", "a", "c", "c", "o", "u", "n", "t" >>

\* "register.htm"
S_register_htm ==
  << "r", "e", "g", "i", "s", "t", "e", "r", ".", "h", "t", "m" >>

\* "overview"
S_overview ==
  << "o", "v", "e", "r", "v", "i", "e", "w" >>

\* "account"
S_account ==
  << "a", "c", "c", "o", "u", "n", "t" >>

\* "Welcome"
S_Welcome ==
  << "W", "e", "l", "c", "o", "m", "e" >>

\* "welcome"
S_welcome ==
  << "w", "e", "l", "c", "o", "m", "e" >>

\* "account was created"
S_account_was_created ==
  << "a", "c", "c", "o", "u", "n", "t", " ", "w", "a", "s", " ", "c", "r",
     "e", "a", "t", "e", "d" >>

\* "successful"
S_successful ==
  << "s", "u", "c", "c", "e", "s", "s", "f", "u", "l" >>

\* "username"
S_username ==
  << "u", "s", "e", "r", "n", "a", "m", "e" >>

\* "exists"
S_exists ==
  << "e", "x", "i", "s", "t", "s" >>

\* "testuser_"
S_testuser_ ==
  << "t", "e", "s", "t", "u", "s", "e", "r", "_" >>

\* "Username already exists"
M_conflict ==
  << "U", "s", "e", "r", "n", "a", "m", "e", " ", "a", "l", "r", "e", "a",
     "d", "y", " ", "e", "x", "i", "s", "t", "s" >>

\* "Username is required."
M_usernameOnly ==
  << "U", "s", "e", "r", "n", "a", "m", "e", " ", "i", "s", " ", "r", "e",
     "q", "u", "i", "r", "e", "d", "." >>

\* "Customer already exists"
M_existsOnly ==
  << "C", "u", "s", "t", "o", "m", "e", "r", " ", "a", "l", "r", "e", "a",
     "d", "y", " ", "e", "x", "i", "s", "t", "s" >>

\* " Passwords did not match. "
M_mismatch ==
  << " ", "P", "a", "s", "s", "w", "o", "r", "d", "s", " ", "d", "i", "d",
     " ", "n", "o", "t", " ", "m", "a", "t", "c", "h", ".", " " >>

\* "  "
M_blank ==
  << " ", " " >>

\* "Welcome u1"
T_welcomeUser ==
  << "W", "e", "l", "c", "o", "m", "e", " ", "u", "1" >>

\* "Signing up is easy!"
T_signup ==
  << "S", "i", "g", "n", "i", "n", "g", " ", "u", "p", " ", "i", "s", " ",
     "e", "a", "s", "y", "!" >>

\* "welcome back"
T_lowerWelcome ==
  << "w", "e", "l", "c", "o", "m", "e", " ", "b", "a", "c", "k" >>

\* "<p>Your account was created successfully.</p>"
C_created ==
  << "<", "p", ">", "Y", "o", "u", "r", " ", "a", "c", "c", "o", "u", "n",
     "t", " ", "w", "a", "s", " ", "c", "r", "e", "a", "t", "e", "d", " ",
     "s", "u", "c", "c", "e", "s", "s", "f", "u", "l", "l", "y", ".", "<",
     "/", "p", ">" >>

\* "<b>WELCOME</b>"
C_upperWelcome ==
  << "<", "b", ">", "W", "E", "L", "C", "O", "M", "E", "<", "/", "b", ">" >>

\* "<p>Login Successful</p>"
C_successful ==
  << "<", "p", ">", "L", "o", "g", "i", "n", " ", "S", "u", "c", "c", "e",
     "s", "s", "f", "u", "l", "<", "/", "p", ">" >>

\* "<h1>Signing up is easy!</h1>"
C_plain ==
  << "<", "h", "1", ">", "S", "i", "g", "n", "i", "n", "g", " ", "u", "p",
     " ", "i", "s", " ", "e", "a", "s", "y", "!", "<", "/", "h", "1", ">" >>

(***************************************************************************)
(* JavaScript values and built-ins used by the program.                   *)
(***************************************************************************)

\* null, as returned by textContent() for a node without text
Null == << "<null>" >>

\* the outcome of a browser call that rejects (timeout, detached node, ...)
Fail == << "<rejected>" >>

UpperChars ==
  << "A", "B", "C", "D", "E", "F", "G", "H", "I", "J", "K", "L", "M",
     "N", "O", "P", "Q", "R", "S", "T", "U", "V", "W", "X", "Y", "Z" >>

LowerChars ==
  << "a", "b", "c", "d", "e", "f", "g", "h", "i", "j", "k", "l", "m",
     "n", "o", "p", "q", "r", "s", "t", "u", "v", "w", "x", "y", "z" >>

DigitChars ==
  << "0", "1", "2", "3", "4", "5", "6", "7", "8", "9" >> \o LowerChars

LowerChar(c) ==
  IF \E i \in 1..26 : UpperChars[i] = c
    THEN LowerChars[CHOOSE i \in 1..26 : UpperChars[i] = c]
    ELSE c

\* String.prototype.toLowerCase
toLowerCase(s) == [i \in 1..Len(s) |-> LowerChar(s[i])]

\* String.prototype.includes
includes(s, sub) ==
  \E i \in 0..(Len(s) - Len(sub)) : SubSeq(s, i + 1, i + Len(sub)) = sub

IsSpace(c) == c \in {" ", "\t", "\n"}

\* String.prototype.trim
trim(s) ==
  LET keep == {i \in 1..Len(s) : ~IsSpace(s[i])}
  IN  IF keep = {} THEN << >>
      ELSE SubSeq(s, CHOOSE i \in keep : \A j \in keep : i <= j,
                     CHOOSE i \in keep : \A j \in keep : j <= i)

RECURSIVE toStringRadix(_, _)
\* Number.prototype.toString(radix), for a non-negative integer
toStringRadix(n, radix) ==
  IF n < radix THEN << DigitChars[n + 1] >>
  ELSE toStringRadix(n \div radix, radix) \o << DigitChars[(n % radix) + 1] >>

RECURSIVE padStart(_, _, _)
\* String.prototype.padStart with a one-character filler
padStart(s, targetLength, c) ==
  IF Len(s) >= targetLength THEN s ELSE padStart(<< c >> \o s, targetLength, c)

\* String.prototype.slice(start, end): negative indices count from the end
slice(s, start, end) ==
  LET norm(i) == IF i < 0 THEN (IF Len(s) + i < 0 THEN 0 ELSE Len(s) + i)
                 ELSE (IF i > Len(s) THEN Len(s) ELSE i)
  IN  SubSeq(s, norm(start) + 1, norm(end))

\* String.prototype.slice(start)
sliceFrom(s, start) == slice(s, start, Len(s))

(***************************************************************************)
(* test-data/userData.js : generateUniqueUser                             *)
(***************************************************************************)

\* Date.now() values the model draws from: BaseTime .. BaseTime + TimeSpan.
\* (milliseconds since the epoch do not fit TLC's 32-bit integers; the
\* formatting code is the program's, applied to these smaller readings)
BaseTime == 1762300799

TimeSpan == 1

Timestamps == BaseTime..(BaseTime + TimeSpan)

\* Math.floor(Math.random() * 1000) ranges over 0..999; the draws modelled
RandomRange == 1000

RandomNums == {0, 42, RandomRange - 1}

\* Math.random().toString(36).substr(2, 5): up to five base-36 digits
RandomTails == { << >>, << "k", "3", "x", "9", "q" >> }

S_Test == << "T", "e", "s", "t" >>

S_User == << "U", "s", "e", "r" >>

S_TestStreet == << " ", "T", "e", "s", "t", " ", "S", "t", "r", "e", "e", "t" >>

S_TestCity == << "T", "e", "s", "t", "C", "i", "t", "y" >>

S_TC == << "T", "C" >>

S_555 == << "5", "5", "5", "-" >>

S_TestPass == << "T", "e", "s", "t", "P", "a", "s", "s" >>

\* variant: the username is the random tail alone
generateUniqueUser_tailOnly(timestamp, randomNum, tail) ==
  LET rn == toStringRadix(randomNum, 10)
      ts == toStringRadix(timestamp, 10)
  IN  [ firstName |-> S_Test \o rn,
        lastName  |-> S_User \o rn,
        address   |-> rn \o S_TestStreet,
        city      |-> S_TestCity,
        state     |-> S_TC,
        zipCode   |-> padStart(rn, 5, "0"),
        phone     |-> S_555 \o padStart(rn, 3, "0") \o << "-" >> \o sliceFrom(ts, -4),
        ssn       |-> padStart(rn, 3, "0") \o << "-" >> \o slice(ts, -6, -3)
                        \o << "-" >> \o sliceFrom(ts, -3),
        username  |-> tail,
        password  |-> S_TestPass \o rn \o << "!" >> ]

generateUniqueUser(timestamp, randomNum, tail) ==
  LET rn == toStringRadix(randomNum, 10)
      ts == toStringRadix(timestamp, 10)
  IN  [ firstName |-> S_Test \o rn,
        lastName  |-> S_User \o rn,
        address   |-> rn \o S_TestStreet,
        city      |-> S_TestCity,
        state     |-> S_TC,
        zipCode   |-> padStart(rn, 5, "0"),
        phone     |-> S_555 \o padStart(rn, 3, "0") \o << "-" >> \o sliceFrom(ts, -4),
        ssn       |-> padStart(rn, 3, "0") \o << "-" >> \o slice(ts, -6, -3)
                        \o << "-" >> \o sliceFrom(ts, -3),
        username  |-> << "u" >> \o toStringRadix(timestamp, 36)
                        \o toStringRadix(randomNum, 36) \o tail,
        password  |-> S_TestPass \o rn \o << "!" >> ]

Registrants ==
  { generateUniqueUser(t, r, x) : t \in Timestamps, r \in RandomNums, x \in RandomTails }

(***************************************************************************)
(* The page as the browser reports it when a page object looks at it.     *)
(* A snapshot fixes the outcome of every lookup the program can make:     *)
(*   delayOk    page.waitForTimeout(2000) resolves                        *)
(*   url        page.url(), or Fail when the call throws                  *)
(*   errors     the text of each '.error' element, in document order      *)
(*              (a string, Null, or Fail when textContent() rejects)      *)
(*   countOk    locator('.error').count() resolves                        *)
(*   allTextOk  locator('.error').allTextContents() resolves              *)
(*   queryOk    page.$$('.error') resolves                                *)
(*   banner, para, title, section                                         *)
(*              waitForSelector(.., visible, 5000) resolves for the       *)
(*              success message, the account-created paragraph, h1.title  *)
(*              and #accountServices                                      *)
(*   titleText  what getTextContent('h1.title') yields                    *)
(*   content    page.content(), or Fail                                   *)
(***************************************************************************)

\* largest number of '.error' elements on a page
MaxErrorElements == 2

RECURSIVE SeqsUpTo(_, _)
SeqsUpTo(S, n) ==
  IF n = 0 THEN { << >> }
  ELSE LET shorter == SeqsUpTo(S, n - 1)
       IN  shorter \cup { Append(s, x) : s \in shorter, x \in S }

Urls == { URL_register, URL_overview, URL_index, URL_registerAccount }

TitleTexts == { T_welcomeUser, T_signup, T_lowerWelcome, Null, Fail }

Contents == { C_created, C_upperWelcome, C_successful, C_plain, Fail }

Snapshot(d, u, e, c, a, q, b, pa, t, se, tt, co) ==
  [ delayOk |-> d, url |-> u, errors |-> e, countOk |-> c,
    allTextOk |-> a, queryOk |-> q, banner |-> b,
    para |-> pa, title |-> t, section |-> se,
    titleText |-> tt, content |-> co ]

\* the registration form as first rendered: no errors, no success marker
FreshRegisterPage ==
  Snapshot(TRUE, URL_register, << >>, TRUE, TRUE, TRUE,
           FALSE, FALSE, TRUE, FALSE, T_signup, C_plain)

(***************************************************************************)
(* pages/BasePage.js                                                      *)
(***************************************************************************)

\* isElementVisible: waitForSelector resolves -> true; it rejects -> the
\* catch returns false
isElementVisible(waitResolves) == IF waitResolves THEN TRUE ELSE FALSE

(***************************************************************************)
(* pages/RegistrationPage.js : isRegistrationSuccessful                   *)
(* An evaluation yields: thrown (an exception left the code), ret (the    *)
(* value returned), via (the branch that decided) and reads (the page     *)
(* lookups made, in order).                                               *)
(***************************************************************************)

Returned(value, via, reads) ==
  [ thrown |-> FALSE, ret |-> value, via |-> via, reads |-> reads ]

Threw(reads) ==
  [ thrown |-> TRUE, ret |-> FALSE, via |-> "exception", reads |-> reads ]

\* variant: only "welcome" is searched for in the page content
PageContentCheck_welcomeOnly(p, reads) ==
  LET r == Append(reads, "content")
  IN  IF p.content = Fail THEN Threw(r)
      ELSE IF includes(toLowerCase(p.content), S_welcome)
             THEN Returned(TRUE, "method6", r)
             ELSE Returned(FALSE, "none", r)

\* Method 6 and the final return (lines 151-164)
PageContentCheck(p, reads) ==
  LET r == Append(reads, "content")
  IN  IF p.content = Fail THEN Threw(r)
      ELSE LET pageContent == p.content
               hasSuccessContent ==
                 \/ includes(toLowerCase(pageContent), S_account_was_created)
                 \/ includes(toLowerCase(pageContent), S_welcome)
                 \/ includes(toLowerCase(pageContent), S_successful)
           IN  IF hasSuccessContent THEN Returned(TRUE, "method6", r)
               ELSE Returned(FALSE, "none", r)

\* variant: only the departure from register.htm counts
UrlCheck_departureOnly(currentUrl) == ~includes(currentUrl, S_register_htm)

\* variant: "overview" is not looked for in the URL
UrlCheck_accountOnly(currentUrl) == includes(currentUrl, S_account)

\* Method 5 (lines 145-149)
UrlCheck(currentUrl) ==
  \/ includes(currentUrl, S_overview)
  \/ includes(currentUrl, S_account)
  \/ ~includes(currentUrl, S_register_htm)

\* Methods 4 to 6 (lines 139-164)
AfterWelcomeTitle(p, reads) ==
  LET r == Append(reads, "accountServicesSection")
  IN  IF isElementVisible(p.section) THEN Returned(TRUE, "method4", r)
      ELSE IF UrlCheck(p.url) THEN Returned(TRUE, "method5", r)
      ELSE PageContentCheck(p, r)

\* Method 3 (lines 130-137)
WelcomeTitleCheck(p, reads) ==
  LET r == Append(reads, "welcomeMessage")
  IN  IF isElementVisible(p.title)
        THEN LET rt == Append(r, "welcomeText")
             IN  IF p.titleText = Fail THEN Threw(rt)
                 \* null.includes(...) is a TypeError
                 ELSE IF p.titleText = Null THEN Threw(rt)
                 ELSE IF includes(p.titleText, S_Welcome)
                        THEN Returned(TRUE, "method3", rt)
                        ELSE AfterWelcomeTitle(p, rt)
        ELSE AfterWelcomeTitle(p, r)

\* Methods 1 and 2 (lines 118-128)
SuccessElementsCheck(p, reads) ==
  LET r1 == Append(reads, "successMessage")
      r2 == Append(r1, "usernameParagraph")
  IN  IF isElementVisible(p.banner) THEN Returned(TRUE, "method1", r1)
      ELSE IF isElementVisible(p.para) THEN Returned(TRUE, "method2", r2)
      ELSE WelcomeTitleCheck(p, r2)

\* variant: the error elements are not looked at before the success signals
ErrorElementsCheck_skipped(p, reads) == SuccessElementsCheck(p, reads)

\* variant: the error elements are counted whatever the URL is
ErrorElementsCheck_anyUrl(p, reads) ==
  LET rc == Append(reads, "count")
  IN  IF ~p.countOk THEN Threw(rc)
      ELSE IF Len(p.errors) > 0
        THEN LET ra == Append(rc, "allTextContents")
             IN  IF ~p.allTextOk THEN Threw(ra)
                 ELSE Returned(FALSE, "errors", ra)
        ELSE SuccessElementsCheck(p, rc)

\* the rejection check (lines 106-116)
ErrorElementsCheck(p, reads) ==
  IF includes(p.url, S_register_htm)
    THEN LET rc == Append(reads, "count")
         IN  IF ~p.countOk THEN Threw(rc)
             ELSE IF Len(p.errors) > 0
               THEN LET ra == Append(rc, "allTextContents")
                    IN  IF ~p.allTextOk THEN Threw(ra)
                        ELSE Returned(FALSE, "errors", ra)
               ELSE SuccessElementsCheck(p, rc)
    ELSE SuccessElementsCheck(p, reads)

\* variant: the URL is read before the settle delay
isRegistrationSuccessfulTry_urlFirst(p) ==
  IF p.url = Fail THEN Threw(<< "url" >>)
  ELSE IF ~p.delayOk THEN Threw(<< "url", "waitForTimeout" >>)
  ELSE ErrorElementsCheck(p, << "url", "waitForTimeout" >>)

\* the body of the try block (lines 103-164)
isRegistrationSuccessfulTry(p) ==
  IF ~p.delayOk THEN Threw(<< "waitForTimeout" >>)
  ELSE IF p.url = Fail THEN Threw(<< "waitForTimeout", "url" >>)
  ELSE ErrorElementsCheck(p, << "waitForTimeout", "url" >>)

\* variant: no catch clause
CatchReturnFalse_absent(r) == r

\* the catch clause (lines 166-169): log and return false
CatchReturnFalse(r) ==
  IF r.thrown THEN Returned(FALSE, "catch", r.reads) ELSE r

isRegistrationSuccessful(p) == CatchReturnFalse(isRegistrationSuccessfulTry(p))

(***************************************************************************)
(* pages/RegistrationPage.js : getErrorMessages                           *)
(***************************************************************************)

Collected(thrown, errorMessages) ==
  [ thrown |-> thrown, errorMessages |-> errorMessages ]

RECURSIVE CollectErrorTexts_untrimmed(_, _, _)
\* variant: the text is pushed as read, not trimmed
CollectErrorTexts_untrimmed(elements, i, errorMessages) ==
  IF i > Len(elements) THEN Collected(FALSE, errorMessages)
  ELSE LET text == elements[i]
       IN  IF text = Fail \/ text = Null THEN Collected(TRUE, errorMessages)
           ELSE IF trim(text) # << >>
                  THEN CollectErrorTexts_untrimmed(elements, i + 1, Append(errorMessages, text))
                  ELSE CollectErrorTexts_untrimmed(elements, i + 1, errorMessages)

RECURSIVE CollectErrorTexts(_, _, _)
\* the for loop (lines 180-185): a rejected textContent(), or a null text
\* (null.trim() is a TypeError), throws with the array as filled so far
CollectErrorTexts(elements, i, errorMessages) ==
  IF i > Len(elements) THEN Collected(FALSE, errorMessages)
  ELSE LET text == elements[i]
       IN  IF text = Fail \/ text = Null THEN Collected(TRUE, errorMessages)
           ELSE IF trim(text) # << >>
                  THEN CollectErrorTexts(elements, i + 1, Append(errorMessages, trim(text)))
                  ELSE CollectErrorTexts(elements, i + 1, errorMessages)

\* the body of the try block (lines 179-185)
getErrorMessagesTry(p) ==
  IF ~p.queryOk THEN Collected(TRUE, << >>)
  ELSE CollectErrorTexts(p.errors, 1, << >>)

\* the catch clause logs; the array is returned either way (lines 186-189)
getErrorMessages(p) == Collected(FALSE, getErrorMessagesTry(p).errorMessages)

(***************************************************************************)
(* pages/BasePage.js : handleCloudflareChallenge                          *)
(* challenge: "absent" (the container is not seen within 5 s), "clears"   *)
(* (seen, then hidden within 30 s) or "stuck" (seen, the wait times out). *)
(***************************************************************************)

Challenges == { "absent", "clears", "stuck" }

\* the body of the try block (lines 361-370): what it did, in order
handleCloudflareChallengeTry(challenge) ==
  LET cloudflareChallenge == isElementVisible(challenge # "absent")
  IN  IF cloudflareChallenge
        THEN IF challenge = "stuck"
               THEN [ thrown |-> TRUE,
                      events |-> << "isElementVisible:true", "log:detected",
                                    "waitForSelector(hidden):rejected" >> ]
               ELSE [ thrown |-> FALSE,
                      events |-> << "isElementVisible:true", "log:detected",
                                    "waitForSelector(hidden):resolved",
                                    "log:completed" >> ]
        ELSE [ thrown |-> FALSE, events |-> << "isElementVisible:false" >> ]

\* variant: no catch clause
handleCloudflareChallenge_noCatch(challenge) ==
  handleCloudflareChallengeTry(challenge)

\* the catch clause only logs (lines 371-373)
handleCloudflareChallenge(challenge) ==
  LET r == handleCloudflareChallengeTry(challenge)
  IN  [ thrown |-> FALSE,
        events |-> IF r.thrown THEN Append(r.events, "log:failed") ELSE r.events ]

(***************************************************************************)
(* pages/RegistrationPage.js : the registration form                      *)
(***************************************************************************)

\* the inputs, in the order fillRegistrationForm fills them
FillOrder ==
  << "firstName", "lastName", "address", "city", "state", "zipCode",
     "phone", "ssn", "username", "password", "confirmPassword" >>

NumFields == Len(FillOrder)

FormFields == { FillOrder[i] : i \in 1..NumFields }

EmptyForm == [ f \in FormFields |-> << >> ]

\* the value fillRegistrationForm passes for an input (lines 70-80)
FieldValue(userData, f) ==
  IF f = "confirmPassword" THEN userData.password ELSE userData[f]

\* variant: the value is typed after what the input already holds
fillRegistrationForm_types(form, userData, k) ==
  [ f \in FormFields |->
      IF \E i \in 1..k : FillOrder[i] = f
        THEN form[f] \o FieldValue(userData, f) ELSE form[f] ]

\* fillRegistrationForm when the first k fillField calls resolve; the call
\* as a whole resolves iff k = NumFields (lines 67-83, 306-309)
fillRegistrationForm(form, userData, k) ==
  [ f \in FormFields |->
      IF \E i \in 1..k : FillOrder[i] = f THEN FieldValue(userData, f) ELSE form[f] ]

\* clearForm (lines 195-217): every input is emptied except those whose
\* page.fill(field, '') rejects, which is only logged
clearForm(form, rejected) ==
  [ f \in FormFields |-> IF f \in rejected THEN form[f] ELSE << >> ]

\* validateFormData (lines 224-239); readOk: the inputValue() calls resolve
validateFormData(form, expectedData, readOk) ==
  IF ~readOk THEN FALSE
  ELSE /\ form["firstName"] = expectedData.firstName
       /\ form["lastName"] = expectedData.lastName
       /\ form["username"] = expectedData.username

(***************************************************************************)
(* tests/registration.spec.js : TC 001, step 'Fill registration form with *)
(* valid data' (the retry loop), and the detector run on its own.         *)
(***************************************************************************)

VARIABLES
  pc,              \* where the step is
  attempt,         \* let attempt
  success,         \* let success
  userData,        \* const userData = generateUniqueUser()
  freshUserData,   \* const freshUserData of the current iteration
  form,            \* the values held by the form's inputs
  page,            \* the page snapshot the browser currently shows
  detection,       \* the latest evaluation of isRegistrationSuccessful
  errorMessages,   \* const errorMessages of the current iteration
  stepError,       \* the error the step ended with, or NoError
  submissions,     \* clicks on the Register button so far
  reloads,         \* page.reload() calls that resolved so far
  errCalls,        \* getErrorMessages calls so far
  submittedUsers,  \* the user data in the form at each click on Register
  attemptLog,      \* per finished detection: what the attempt observed
  trace,           \* the browser operations of the current attempt
  \* class ParaBankTestSuite
  browser,         \* this.browser: "null", "open" or "closed"
  testResults,     \* this.testResults
  running,         \* the calls of runTestCase001 in progress
  now,             \* the clock read by new Date()
  runPc,           \* where run(), or the caller of the suite, is
  exitCode,        \* the status the process exited with, or NotExited
  closeCalls,      \* browser.close() calls so far
  report,          \* what generateReport last rendered, or NoReport
  \* class TestHelpers
  backoff          \* the call of retryWithBackoff, or NotCalled

\* the state of the Playwright test "TC 001"
loopVars ==
  << pc, attempt, success, userData, freshUserData, form, page, detection,
     errorMessages, stepError, submissions, reloads, errCalls,
     submittedUsers, attemptLog, trace >>

\* the state of a ParaBankTestSuite and of the process that runs it
suiteVars ==
  << browser, testResults, running, now, runPc, exitCode, closeCalls, report >>

\* the state of a call of a TestHelpers method
helperVars == << backoff >>

vars == << loopVars, suiteVars, helperVars >>

\* const maxAttempts = 3
maxAttempts == 3

NoError == [ name |-> "none", n |-> 0 ]

\* new Error(`Registration failed after ${maxAttempts} attempts`)
RegistrationFailed == [ name |-> "Registration failed after N attempts", n |-> maxAttempts ]

\* an error thrown by a page-object call or by expect()
CallError(what) == [ name |-> what, n |-> 0 ]

(***************************************************************************)
(* tests/registration.spec.js : values of class ParaBankTestSuite         *)
(* A Date is << t >>, a Date-valued field that holds null is << >>; a     *)
(* text is << "..." >> and a text-valued field that holds null is Null.   *)
(***************************************************************************)

Date(t) == << t >>

NoDate == << >>

\* ToNumber, as applied by the operator "-": null is 0, a Date its time
ToNumber(d) == IF d = NoDate THEN 0 ELSE d[1]

Minus(a, b) == ToNumber(a) - ToNumber(b)

Text(s) == << s >>

\* the constructor (lines 261-272), run at time t
NewTestResults(t) ==
  [ startTime |-> Date(t), endTime |-> NoDate,
    totalTests |-> 0, passedTests |-> 0, failedTests |-> 0,
    testCases |-> << >> ]

\* the two calls of runTestCase001 that may be in progress at once
Executions == { 1, 2 }

NoStep ==
  [ name |-> "none", status |-> "none", startTime |-> NoDate,
    endTime |-> NoDate, result |-> Null, error |-> Null ]

NoCase ==
  [ id |-> "none", status |-> "none", steps |-> << >>, startTime |-> NoDate,
    endTime |-> NoDate, error |-> Null ]

\* what awaiting a step function gives: a value, or an error thrown
StepReturns(v) == [ thrown |-> NoError, value |-> Text(v) ]

StepThrowsError(message) == [ thrown |-> CallError(message), value |-> Null ]

\* no call in progress
Idle ==
  [ pc |-> "idle", testCase |-> NoCase, step |-> NoStep, k |-> 0,
    outcome |-> StepReturns("none"), ended |-> NoStep,
    endedThrown |-> NoError, screenshot |-> "none",
    thrown |-> NoError ]

NotExited == "running"

NoReport == [ rendered |-> FALSE ]

\* no TestHelpers method has been called
NotCalled == [ pc |-> "not called" ]

HelpersUnused == backoff = NotCalled

\* a suite just constructed, no method called yet
Constructed ==
  /\ browser = "null"
  /\ testResults = NewTestResults(1)
  /\ running = [ e \in Executions |-> Idle ]
  /\ now = 1
  /\ exitCode = NotExited
  /\ closeCalls = 0
  /\ report = NoReport

\* the Playwright tests do not use the class
SuiteUnused == Constructed /\ runPc = "unused"

NoDetection == Returned(FALSE, "not run", << >>)

NoUser == [ username |-> << >> ]

\* variant: the loop test forgets !success
LoopContinues_ignoresSuccess(a, s) == a < maxAttempts

\* while (attempt < maxAttempts && !success)   (line 62)
LoopContinues(a, s) == a < maxAttempts /\ ~s

\* variant: the messages are not lower-cased before the search
hasUsernameConflict_caseSensitive(msgs) ==
  LET both(msg) == includes(msg, S_username) /\ includes(msg, S_exists)
  IN  \E i \in 1..Len(msgs) : both(msgs[i])

\* variant: "username" and "exists" looked for in the list as a whole
hasUsernameConflict_acrossMessages(msgs) ==
  LET user(msg) == includes(toLowerCase(msg), S_username)
      exists(msg) == includes(toLowerCase(msg), S_exists)
  IN  (\E i \in 1..Len(msgs) : user(msgs[i])) /\ (\E i \in 1..Len(msgs) : exists(msgs[i]))

\* errorMessages.some(msg => ... && ...)   (lines 88-90)
hasUsernameConflict(msgs) ==
  LET both(msg) == /\ includes(toLowerCase(msg), S_username)
                   /\ includes(toLowerCase(msg), S_exists)
  IN  \E i \in 1..Len(msgs) : both(msgs[i])

\* variant: the retry forgets the attempt bound
ShouldRetry_unbounded(conflict, a) == conflict

\* variant: the retry forgets the conflict test
ShouldRetry_anyFailure(conflict, a) == a < maxAttempts

\* if (hasUsernameConflict && attempt < maxAttempts)   (line 92)
ShouldRetry(conflict, a) == conflict /\ a < maxAttempts

\* if (!success) throw ...   (lines 104-106)
StepThrows(s) == ~s

\* variant: a catch around the loop body rethrows the named error
Propagate_asNamedFailure(err) == RegistrationFailed

\* no try/catch encloses the loop body: what a call throws leaves the step
Propagate(err) == err

(***************************************************************************)
(* tests/registration.spec.js : ParaBankTestSuite.executeStep             *)
(* An Error is the record CallError(message); NoError is "nothing thrown".*)
(***************************************************************************)

\* the step record as created (lines 530-537)
NewStep(stepName, t) ==
  [ name |-> stepName, status |-> "RUNNING", startTime |-> Date(t),
    endTime |-> NoDate, result |-> Null, error |-> Null ]

\* the try block (lines 539-543)
executeStepTry(step, outcome) ==
  IF outcome.thrown = NoError
    THEN [ thrown |-> NoError,
           step |-> [ step EXCEPT !.result = outcome.value, !.status = "PASSED" ] ]
    ELSE [ thrown |-> outcome.thrown, step |-> step ]

\* variant: the catch clause records the failure and does not rethrow
executeStepCatch_swallows(r) ==
  IF r.thrown # NoError
    THEN [ thrown |-> NoError,
           step |-> [ r.step EXCEPT !.status = "FAILED",
                                    !.error = Text(r.thrown.name) ] ]
    ELSE r

\* the catch clause (lines 544-548): record the failure, rethrow the error
executeStepCatch(r) ==
  IF r.thrown # NoError
    THEN [ thrown |-> r.thrown,
           step |-> [ r.step EXCEPT !.status = "FAILED",
                                    !.error = Text(r.thrown.name) ] ]
    ELSE r

\* variant: no finally clause
executeStepFinally_absent(r, t) == r

\* the finally clause (lines 549-551)
executeStepFinally(r, t) == [ r EXCEPT !.step.endTime = Date(t) ]

\* executeStep from the moment the awaited step function settles, at time t;
\* when nothing is thrown the caller receives step (line 553)
executeStep(step, outcome, t) ==
  executeStepFinally(executeStepCatch(executeStepTry(step, outcome)), t)

(***************************************************************************)
(* tests/registration.spec.js : ParaBankTestSuite.runTestCase001          *)
(***************************************************************************)

\* the names of the five steps (lines 331, 351, 382, 402, 437)
StepNames ==
  << "Navigate to ParaBank homepage", "Click on Register link",
     "Fill registration form with test data", "Submit registration form",
     "Verify welcome message with username" >>

NumSteps == Len(StepNames)

\* what the step functions may return (lines 345, 361, 396, 425, 431, 493)
StepValues ==
  << { "Successfully navigated to ParaBank. Title: ParaBank" },
     { "Successfully navigated to registration page" },
     { "Form filled with username: testuser" },
     { "Registration form submitted successfully",
       "Registration successful - found via alternative text check" },
     { "verifications" } >>

\* what the step functions may throw (lines 333-342, 353-358, 384-394,
\* 404-427, 439-450)
StepFailures ==
  << { "page.goto: Timeout 30000ms exceeded", "Expected ParaBank in title" },
     { "page.click: Timeout exceeded", "Expected register.htm in URL" },
     { "page.fill: Timeout exceeded [name=customer.firstName]",
       "page.fill: Timeout exceeded [name=repeatedPassword]" },
     { "page.click: Timeout exceeded", "page.waitForSelector: Timeout exceeded" },
     { "page.title: Target closed",
       "Welcome message not found after registration" } >>

StepOutcomes(k) ==
  { StepReturns(v) : v \in StepValues[k] } \cup
  { StepThrowsError(m) : m \in StepFailures[k] }

\* const testCase = {...} (lines 316-324)
NewTestCase(t) ==
  [ id |-> "TC 001", status |-> "RUNNING", steps |-> << >>,
    startTime |-> Date(t), endTime |-> NoDate, error |-> Null ]

\* variant: a passed case is not counted
CasePassed_uncounted(testCase, results, t) ==
  [ testCase |-> [ testCase EXCEPT !.status = "PASSED", !.endTime = Date(t) ],
    testResults |-> results ]

\* lines 497-499: the end of the try block
CasePassed(testCase, results, t) ==
  [ testCase |-> [ testCase EXCEPT !.status = "PASSED", !.endTime = Date(t) ],
    testResults |-> [ results EXCEPT !.passedTests = @ + 1 ] ]

\* variant: the catch clause rethrows after recording
CaseCatch_rethrows(testCase, results, error, t) ==
  [ testCase |-> [ testCase EXCEPT !.status = "FAILED",
                                   !.error = Text(error.name),
                                   !.endTime = Date(t) ],
    testResults |-> [ results EXCEPT !.failedTests = @ + 1 ],
    thrown |-> error ]

\* lines 503-507: the catch clause up to the screenshot
CaseCatch(testCase, results, error, t) ==
  [ testCase |-> [ testCase EXCEPT !.status = "FAILED",
                                   !.error = Text(error.name),
                                   !.endTime = Date(t) ],
    testResults |-> [ results EXCEPT !.failedTests = @ + 1 ],
    thrown |-> NoError ]

\* variant: the case is counted and not appended
CaseRecorded_notAppended(testCase, results) ==
  [ results EXCEPT !.totalTests = @ + 1 ]

\* lines 523-524
CaseRecorded(testCase, results) ==
  [ results EXCEPT !.testCases = Append(@, testCase), !.totalTests = @ + 1 ]

(***************************************************************************)
(* The two callers of handleCloudflareChallenge. Each yields the error it *)
(* ends with (NoError when it returns) and the calls it made, in order.   *)
(***************************************************************************)

\* await this.handleCloudflareChallenge(), as the caller sees it
AwaitChallenge(handled) ==
  << "handleCloudflareChallenge" >> \o handled.events \o
  << IF handled.thrown THEN "handleCloudflareChallenge:threw"
                       ELSE "handleCloudflareChallenge:returned" >>

Called(error, calls) == [ error |-> error, calls |-> calls ]

\* HomePage.open (HomePage.js lines 41-45)
open(navigateOk, challenge, loadOk) ==
  IF ~navigateOk THEN Called(CallError("navigateTo"), << "navigateTo:rejected" >>)
  ELSE LET handled == handleCloudflareChallenge(challenge)
           c == << "navigateTo" >> \o AwaitChallenge(handled)
       IN  IF handled.thrown THEN Called(CallError("handleCloudflareChallenge"), c)
           ELSE IF ~loadOk
             THEN Called(CallError("waitForPageLoad"), Append(c, "waitForPageLoad:rejected"))
             ELSE Called(NoError, Append(c, "waitForPageLoad"))

\* variant: the page load is awaited right after the click
submitRegistration_noChallenge(clickOk, challenge, loadOk) ==
  IF ~clickOk THEN Called(CallError("clickElement"), << "click:rejected" >>)
  ELSE IF ~loadOk
    THEN Called(CallError("waitForPageLoad"), << "click", "waitForPageLoad:rejected" >>)
    ELSE Called(NoError, << "click", "waitForPageLoad" >>)

\* RegistrationPage.submitRegistration (lines 88-95)
submitRegistration(clickOk, challenge, loadOk) ==
  IF ~clickOk THEN Called(CallError("clickElement"), << "click:rejected" >>)
  ELSE LET handled == handleCloudflareChallenge(challenge)
           c == << "click" >> \o AwaitChallenge(handled)
       IN  IF handled.thrown THEN Called(CallError("handleCloudflareChallenge"), c)
           ELSE IF ~loadOk
             THEN Called(CallError("waitForPageLoad"), Append(c, "waitForPageLoad:rejected"))
             ELSE Called(NoError, Append(c, "waitForPageLoad"))

(***************************************************************************)
(* The pages the application may answer a submission with.                *)
(***************************************************************************)

SubmitErrorTexts == { M_conflict, M_usernameOnly, M_existsOnly, Fail }

\* the redirect to the overview; the registration page again with any list
\* of error elements; or the registration page with the success message,
\* alone or beside one error element
SubmitPages ==
  { Snapshot(TRUE, URL_overview, << >>, TRUE, TRUE, TRUE,
             FALSE, FALSE, TRUE, FALSE, T_welcomeUser, C_created) }
  \cup
  { Snapshot(TRUE, URL_register, errs, TRUE, TRUE, TRUE,
             FALSE, FALSE, TRUE, FALSE, T_signup, C_plain) :
      errs \in SeqsUpTo(SubmitErrorTexts, MaxErrorElements) }
  \cup
  { Snapshot(TRUE, URL_register, errs, TRUE, TRUE, TRUE,
             TRUE, FALSE, TRUE, FALSE, T_signup, C_created) :
      errs \in SeqsUpTo(SubmitErrorTexts, 1) }

\* the users the test may have generated before the step (line 35)
TestUsers ==
  { generateUniqueUser(t, 42, << "k", "3", "x", "9", "q" >>) : t \in Timestamps }

Init ==
  /\ pc = "loop"
  /\ attempt = 0
  /\ success = FALSE
  /\ userData \in TestUsers
  /\ freshUserData = NoUser
  /\ form = EmptyForm
  /\ page = FreshRegisterPage
  /\ detection = NoDetection
  /\ errorMessages = << >>
  /\ stepError = NoError
  /\ submissions = 0
  /\ reloads = 0
  /\ errCalls = 0
  /\ submittedUsers = << >>
  /\ attemptLog = << >>
  /\ trace = << >>
  /\ SuiteUnused
  /\ HelpersUnused

\* the step ends by throwing err
Throw(err) ==
  /\ pc' = "done"
  /\ stepError' = Propagate(err)

\* lines 62-68: the loop test, attempt++, the choice of freshUserData
LoopTest ==
  /\ pc = "loop"
  /\ IF LoopContinues(attempt, success)
       THEN /\ attempt' = attempt + 1
            /\ trace' = << >>
            /\ IF includes(userData.username, S_testuser_)
                 \* testData is not defined in this file: a ReferenceError
                 THEN /\ Throw(CallError("ReferenceError: testData is not defined"))
                      /\ UNCHANGED freshUserData
                 ELSE /\ freshUserData' = userData
                      /\ pc' = "fill"
                      /\ UNCHANGED stepError
       ELSE /\ pc' = "after"
            /\ UNCHANGED << attempt, trace, freshUserData, stepError >>
  /\ UNCHANGED << success, userData, form, page, detection, errorMessages,
                  submissions, reloads, errCalls, submittedUsers, attemptLog >>
  /\ UNCHANGED suiteVars
  /\ UNCHANGED helperVars

\* line 70: await registrationPage.fillRegistrationForm(freshUserData)
Fill ==
  /\ pc = "fill"
  /\ \E k \in 0..NumFields :
       /\ form' = fillRegistrationForm(form, freshUserData, k)
       /\ trace' = Append(trace, "fill")
       /\ IF k = NumFields
            THEN pc' = "validate" /\ UNCHANGED stepError
            ELSE Throw(CallError("fillField"))
  /\ UNCHANGED << attempt, success, userData, freshUserData, page, detection,
                  errorMessages, submissions, reloads, errCalls,
                  submittedUsers, attemptLog >>
  /\ UNCHANGED suiteVars
  /\ UNCHANGED helperVars

\* lines 73-74: validateFormData and expect(isFormValid).toBeTruthy()
Validate ==
  /\ pc = "validate"
  /\ \E readOk \in BOOLEAN :
       LET isFormValid == validateFormData(form, freshUserData, readOk)
       IN  IF isFormValid
             THEN pc' = "submit" /\ UNCHANGED stepError
             ELSE Throw(CallError("expect(isFormValid).toBeTruthy()"))
  /\ trace' = Append(trace, "validate")
  /\ UNCHANGED << attempt, success, userData, freshUserData, form, page,
                  detection, errorMessages, submissions, reloads, errCalls,
                  submittedUsers, attemptLog >>
  /\ UNCHANGED suiteVars
  /\ UNCHANGED helperVars

\* line 77: await registrationPage.submitRegistration(); once the button is
\* clicked the application answers with a page
Submit ==
  /\ pc = "submit"
  /\ \E clickOk \in BOOLEAN, answer \in SubmitPages, challenge \in Challenges,
        loadOk \in BOOLEAN :
       LET r == submitRegistration(clickOk, challenge, loadOk)
       IN  /\ trace' = trace \o r.calls
           /\ IF clickOk
                THEN /\ page' = answer
                     /\ submissions' = submissions + 1
                     /\ submittedUsers' = Append(submittedUsers, freshUserData)
                ELSE UNCHANGED << page, submissions, submittedUsers >>
           /\ IF r.error = NoError
                THEN pc' = "detect" /\ UNCHANGED stepError
                ELSE Throw(r.error)
  /\ UNCHANGED << attempt, success, userData, freshUserData, form, detection,
                  errorMessages, reloads, errCalls, attemptLog >>
  /\ UNCHANGED suiteVars
  /\ UNCHANGED helperVars

\* what one attempt observed: the detector's answer, whether getErrorMessages
\* was asked, and what was said about the user name
Observed(ok, asked, msgs) ==
  [ ok |-> ok, asked |-> asked,
    saidExists |-> \E i \in 1..Len(msgs) : msgs[i] = M_conflict,
    conflict |-> hasUsernameConflict(msgs) ]

\* lines 80-101: the detector, and on false the classification of the errors
Detect ==
  /\ pc = "detect"
  /\ LET isSuccessful == isRegistrationSuccessful(page)
     IN  /\ detection' = isSuccessful
         /\ trace' = Append(trace, "isRegistrationSuccessful")
         /\ IF isSuccessful.ret
              THEN /\ success' = TRUE
                   /\ pc' = "loop"
                   /\ attemptLog' = Append(attemptLog, Observed(TRUE, FALSE, << >>))
                   /\ UNCHANGED << errorMessages, errCalls >>
              ELSE LET msgs == getErrorMessages(page).errorMessages
                   IN  /\ errorMessages' = msgs
                       /\ errCalls' = errCalls + 1
                       /\ attemptLog' = Append(attemptLog, Observed(FALSE, TRUE, msgs))
                       /\ pc' = IF ShouldRetry(hasUsernameConflict(msgs), attempt)
                                  THEN "reload" ELSE "after"
                       /\ UNCHANGED success
  /\ UNCHANGED << attempt, userData, freshUserData, form, page, stepError,
                  submissions, reloads, submittedUsers >>
  /\ UNCHANGED suiteVars
  /\ UNCHANGED helperVars

\* lines 95-96: page.reload() and homePage.clickRegisterLink()
Reload ==
  /\ pc = "reload"
  /\ \/ /\ Throw(CallError("page.reload"))
        /\ UNCHANGED << reloads, page, form >>
     \/ /\ reloads' = reloads + 1
        /\ page' = FreshRegisterPage
        /\ form' = EmptyForm
        /\ \/ Throw(CallError("clickRegisterLink"))
           \/ pc' = "loop" /\ UNCHANGED stepError
  /\ UNCHANGED << attempt, success, userData, freshUserData, detection,
                  errorMessages, submissions, errCalls, submittedUsers,
                  attemptLog, trace >>
  /\ UNCHANGED suiteVars
  /\ UNCHANGED helperVars

\* lines 104-106: after the loop
EndStep ==
  /\ pc = "after"
  /\ IF StepThrows(success)
       THEN Throw(RegistrationFailed)
       ELSE pc' = "done" /\ UNCHANGED stepError
  /\ UNCHANGED << attempt, success, userData, freshUserData, form, page,
                  detection, errorMessages, submissions, reloads, errCalls,
                  submittedUsers, attemptLog, trace >>
  /\ UNCHANGED suiteVars
  /\ UNCHANGED helperVars

Next == LoopTest \/ Fill \/ Validate \/ Submit \/ Detect \/ Reload \/ EndStep

Spec == Init /\ [][Next]_vars

(***************************************************************************)
(* The whole test "TC 001": beforeEach (HomePage.open), the generation of *)
(* the user, steps 1 and 2, then the retry loop of step 3.                *)
(***************************************************************************)

\* "about:blank"
URL_blank ==
  << "a", "b", "o", "u", "t", ":", "b", "l", "a", "n", "k" >>

\* the page of a new browser tab
BlankPage ==
  Snapshot(TRUE, URL_blank, << >>, TRUE, TRUE, TRUE,
           FALSE, FALSE, FALSE, FALSE, Null, C_plain)

\* the ParaBank home page
HomePageShown ==
  Snapshot(TRUE, URL_index, << >>, TRUE, TRUE, TRUE,
           FALSE, FALSE, FALSE, FALSE, Null, C_plain)

InitTest ==
  /\ pc = "beforeEach"
  /\ attempt = 0
  /\ success = FALSE
  /\ userData = NoUser
  /\ freshUserData = NoUser
  /\ form = EmptyForm
  /\ page = BlankPage
  /\ detection = NoDetection
  /\ errorMessages = << >>
  /\ stepError = NoError
  /\ submissions = 0
  /\ reloads = 0
  /\ errCalls = 0
  /\ submittedUsers = << >>
  /\ attemptLog = << >>
  /\ trace = << >>
  /\ SuiteUnused
  /\ HelpersUnused

\* lines 14-21: test.beforeEach, await homePage.open()
BeforeEach ==
  /\ pc = "beforeEach"
  /\ \E navigateOk \in BOOLEAN, challenge \in Challenges, loadOk \in BOOLEAN :
       LET r == open(navigateOk, challenge, loadOk)
       IN  /\ trace' = trace \o r.calls
           /\ page' = IF navigateOk THEN HomePageShown ELSE page
           /\ IF r.error = NoError
                THEN pc' = "test" /\ UNCHANGED stepError
                ELSE Throw(r.error)
  /\ UNCHANGED << attempt, success, userData, freshUserData, form, detection,
                  errorMessages, submissions, reloads, errCalls,
                  submittedUsers, attemptLog >>
  /\ UNCHANGED suiteVars
  /\ UNCHANGED helperVars

\* line 35: const userData = generateUniqueUser()
GenerateUser ==
  /\ pc = "test"
  /\ userData' \in TestUsers
  /\ pc' = "step1"
  /\ UNCHANGED << attempt, success, freshUserData, form, page, detection,
                  errorMessages, stepError, submissions, reloads, errCalls,
                  submittedUsers, attemptLog, trace >>
  /\ UNCHANGED suiteVars
  /\ UNCHANGED helperVars

\* lines 40-46: step 1, isHomePageLoaded and getTitle with their expects
VerifyHome ==
  /\ pc = "step1"
  /\ \E isLoaded \in BOOLEAN, titleOk \in BOOLEAN :
       IF ~isLoaded
         THEN /\ trace' = Append(trace, "isHomePageLoaded")
              /\ Throw(CallError("expect(isLoaded).toBeTruthy()"))
         ELSE /\ trace' = trace \o << "isHomePageLoaded", "getTitle" >>
              /\ IF titleOk
                   THEN pc' = "step2" /\ UNCHANGED stepError
                   ELSE Throw(CallError("expect(pageTitle).toContain('ParaBank')"))
  /\ UNCHANGED << attempt, success, userData, freshUserData, form, page,
                  detection, errorMessages, submissions, reloads, errCalls,
                  submittedUsers, attemptLog >>
  /\ UNCHANGED suiteVars
  /\ UNCHANGED helperVars

\* lines 49-54: step 2, clickRegisterLink and isRegistrationPageLoaded
GoToRegister ==
  /\ pc = "step2"
  /\ \E clickOk \in BOOLEAN, isRegistrationPageLoaded \in BOOLEAN :
       IF ~clickOk
         THEN /\ trace' = Append(trace, "clickRegisterLink:rejected")
              /\ Throw(CallError("clickRegisterLink"))
              /\ UNCHANGED page
         ELSE /\ trace' = trace \o << "clickRegisterLink", "isRegistrationPageLoaded" >>
              /\ page' = FreshRegisterPage
              /\ IF isRegistrationPageLoaded
                   THEN pc' = "loop" /\ UNCHANGED stepError
                   ELSE Throw(CallError("expect(isRegistrationPageLoaded).toBeTruthy()"))
  /\ UNCHANGED << attempt, success, userData, freshUserData, form, detection,
                  errorMessages, submissions, reloads, errCalls,
                  submittedUsers, attemptLog >>
  /\ UNCHANGED suiteVars
  /\ UNCHANGED helperVars

NextTest == BeforeEach \/ GenerateUser \/ VerifyHome \/ GoToRegister \/ Next

SpecTest == InitTest /\ [][NextTest]_vars

(***************************************************************************)
(* tests/registration.spec.js : initialize, cleanup, generateReport       *)
(***************************************************************************)

\* initialize (lines 274-306): this.browser is assigned once launch resolves
initialize(launchOk, contextOk, pageOk) ==
  IF ~launchOk THEN [ thrown |-> CallError("chromium.launch"), browser |-> "null" ]
  ELSE IF ~contextOk THEN [ thrown |-> CallError("browser.newContext"), browser |-> "open" ]
  ELSE IF ~pageOk THEN [ thrown |-> CallError("context.newPage"), browser |-> "open" ]
  ELSE [ thrown |-> NoError, browser |-> "open" ]

\* cleanup (lines 308-313), ending at time t; closed tells whether
\* browser.close() was called
cleanup(b, results, closeOk, t) ==
  IF b # "null"
    THEN IF closeOk
           THEN [ thrown |-> NoError, browser |-> "closed", closed |-> TRUE,
                  testResults |-> [ results EXCEPT !.endTime = Date(t) ] ]
           ELSE [ thrown |-> CallError("browser.close"), browser |-> b,
                  closed |-> TRUE, testResults |-> results ]
    ELSE [ thrown |-> NoError, browser |-> b, closed |-> FALSE,
           testResults |-> [ results EXCEPT !.endTime = Date(t) ] ]

\* Math.round(p / t * 100) for integers 0 <= p <= t, t > 0
RoundedPercent(p, t) == (200 * p + t) \div (2 * t)

\* the part of the document that depends on the run record (lines 557-628)
Render(results) ==
  [ endTimeRead |-> results.endTime,
    duration |-> Minus(results.endTime, results.startTime),
    successRate |-> IF results.totalTests > 0
                      THEN RoundedPercent(results.passedTests, results.totalTests)
                      ELSE 0,
    totalTests |-> results.totalTests,
    passedTests |-> results.passedTests,
    failedTests |-> results.failedTests,
    testCases |->
      [ i \in 1..Len(results.testCases) |->
          LET testCase == results.testCases[i]
          IN  [ id |-> testCase.id, status |-> testCase.status,
                duration |-> Minus(testCase.endTime, testCase.startTime),
                error |-> testCase.error,
                steps |-> [ j \in 1..Len(testCase.steps) |->
                              [ name |-> testCase.steps[j].name,
                                status |-> testCase.steps[j].status,
                                result |-> testCase.steps[j].result,
                                error |-> testCase.steps[j].error ] ] ] ] ]

\* variant: the run record is stamped as ended while it is rendered
generateReport_stampsEndTime(results, writeOk, t) ==
  [ thrown |-> IF writeOk THEN NoError ELSE CallError("fs.writeFileSync"),
    report |-> Render([ results EXCEPT !.endTime = Date(t) ]),
    testResults |-> [ results EXCEPT !.endTime = Date(t) ] ]

\* generateReport (lines 556-640), run at time t: the document, the run
\* record it leaves, and the error of the file write if it fails
generateReport(results, writeOk, t) ==
  [ thrown |-> IF writeOk THEN NoError ELSE CallError("fs.writeFileSync"),
    report |-> Render(results),
    testResults |-> results ]

\* what a call of generateReport left: the document and what it threw
Reported(r) == [ rendered |-> TRUE, thrown |-> r.thrown, document |-> r.report ]

(***************************************************************************)
(* A call of runTestCase001 as execution e. An action is what runs        *)
(* between two awaits; the clock advances while an await is pending.      *)
(***************************************************************************)

\* from the call to the first await (lines 316-333)
StartCase(e, t) ==
  running' = [ running EXCEPT ![e] =
                 [ Idle EXCEPT !.pc = "step", !.testCase = NewTestCase(t),
                               !.k = 1, !.step = NewStep(StepNames[1], t) ] ]

\* the awaited step function settles: the rest of executeStep, then either
\* the push and the next step up to its await, or the end of the try block
\* and lines 523-526, or the catch clause up to the screenshot
StepEndsWith(e, outcome) ==
  /\ running[e].pc = "step"
  /\ now' = now + 1
  /\ LET x == running[e]
         r == executeStep(x.step, outcome, now')
         pushed == [ x.testCase EXCEPT !.steps = Append(@, r.step) ]
         p == CasePassed(pushed, testResults, now')
         c == CaseCatch(x.testCase, testResults, r.thrown, now')
     IN  IF r.thrown = NoError
           THEN IF x.k < NumSteps
                  THEN /\ running' = [ running EXCEPT ![e] =
                              [ x EXCEPT !.testCase = pushed, !.k = x.k + 1,
                                         !.step = NewStep(StepNames[x.k + 1], now'),
                                         !.outcome = outcome,
                                         !.ended = r.step, !.endedThrown = NoError ] ]
                       /\ UNCHANGED testResults
                  ELSE /\ running' = [ running EXCEPT ![e] =
                              [ x EXCEPT !.pc = "returned", !.testCase = p.testCase,
                                         !.step = NoStep,
                                         !.outcome = outcome,
                                         !.ended = r.step, !.endedThrown = NoError ] ]
                       /\ testResults' = CaseRecorded(p.testCase, p.testResults)
           ELSE /\ running' = [ running EXCEPT ![e] =
                       [ x EXCEPT !.pc = IF c.thrown = NoError THEN "screenshot"
                                                                ELSE "returned",
                                  !.testCase = c.testCase, !.step = NoStep,
                                  !.outcome = outcome,
                                  !.ended = r.step, !.endedThrown = r.thrown,
                                  !.thrown = c.thrown ] ]
                /\ testResults' = c.testResults
  /\ UNCHANGED << browser, runPc, exitCode, closeCalls, report >>
  /\ UNCHANGED loopVars
  /\ UNCHANGED helperVars

\* the awaited step function settles in one of the ways it can
StepEnds(e) ==
  /\ running[e].pc = "step"
  /\ \E outcome \in StepOutcomes(running[e].k) : StepEndsWith(e, outcome)

\* lines 512-526: the screenshot settles (a rejection is only logged), the
\* case is appended and counted, the call returns
ScreenshotEnds(e) ==
  /\ running[e].pc = "screenshot"
  /\ now' = now + 1
  /\ \E saved \in BOOLEAN :
       running' = [ running EXCEPT ![e] =
                      [ @ EXCEPT !.pc = "returned",
                                 !.screenshot = IF saved THEN "saved" ELSE "failed" ] ]
  /\ testResults' = CaseRecorded(running[e].testCase, testResults)
  /\ UNCHANGED << browser, runPc, exitCode, closeCalls, report >>
  /\ UNCHANGED loopVars
  /\ UNCHANGED helperVars

(***************************************************************************)
(* ParaBankTestSuite.run (lines 642-673), as started by lines 677-680.    *)
(* process.exit() ends the process at once: nothing after it runs, the    *)
(* finally clause of run() included.                                      *)
(***************************************************************************)

\* the Playwright test is not running
LoopUnused ==
  /\ pc = "unused"
  /\ attempt = 0
  /\ success = FALSE
  /\ userData = NoUser
  /\ freshUserData = NoUser
  /\ form = EmptyForm
  /\ page = BlankPage
  /\ detection = NoDetection
  /\ errorMessages = << >>
  /\ stepError = NoError
  /\ submissions = 0
  /\ reloads = 0
  /\ errCalls = 0
  /\ submittedUsers = << >>
  /\ attemptLog = << >>
  /\ trace = << >>

InitRun == LoopUnused /\ Constructed /\ runPc = "initialize" /\ HelpersUnused

\* variant: the status is 0 whatever the counts
ExitStatus_alwaysZero(failedTests) == 0

\* lines 659-665: the status run() exits with after the summary
ExitStatus(failedTests) == IF failedTests > 0 THEN 1 ELSE 0

\* process.exit(code)
processExit(code) ==
  /\ exitCode' = code
  /\ runPc' = "exited"

\* lines 644-647: initialize settles; on success runTestCase001 is called and
\* runs up to its first await
RunInitialize ==
  /\ runPc = "initialize"
  /\ now' = now + 1
  /\ \E launchOk \in BOOLEAN, contextOk \in BOOLEAN, pageOk \in BOOLEAN :
       LET r == initialize(launchOk, contextOk, pageOk)
       IN  /\ browser' = r.browser
           /\ IF r.thrown = NoError
                THEN runPc' = "awaitCase" /\ StartCase(1, now')
                ELSE runPc' = "catch" /\ UNCHANGED running
  /\ UNCHANGED << testResults, exitCode, closeCalls, report >>
  /\ UNCHANGED loopVars
  /\ UNCHANGED helperVars

\* lines 647-649: runTestCase001 has settled; generateReport is called
RunReport ==
  /\ runPc = "awaitCase"
  /\ running[1].pc = "returned"
  /\ IF running[1].thrown # NoError
       THEN runPc' = "catch" /\ UNCHANGED << testResults, report >>
       ELSE \E writeOk \in BOOLEAN :
              LET r == generateReport(testResults, writeOk, now)
              IN  /\ report' = Reported(r)
                  /\ testResults' = r.testResults
                  /\ runPc' = IF r.thrown = NoError THEN "summary" ELSE "catch"
  /\ UNCHANGED << browser, running, now, exitCode, closeCalls >>
  /\ UNCHANGED loopVars
  /\ UNCHANGED helperVars

\* lines 651-665: the summary and the exit by the count of failed cases
RunSummary ==
  /\ runPc = "summary"
  /\ processExit(ExitStatus(testResults.failedTests))
  /\ UNCHANGED << browser, testResults, running, now, closeCalls, report >>
  /\ UNCHANGED loopVars
  /\ UNCHANGED helperVars

\* lines 667-669: the catch clause
RunCatch ==
  /\ runPc = "catch"
  /\ processExit(1)
  /\ UNCHANGED << browser, testResults, running, now, closeCalls, report >>
  /\ UNCHANGED loopVars
  /\ UNCHANGED helperVars

NextRun ==
  RunInitialize \/ StepEnds(1) \/ ScreenshotEnds(1) \/ RunReport \/ RunSummary
    \/ RunCatch

SpecRun == InitRun /\ [][NextRun]_vars

(***************************************************************************)
(* The class used through its methods (module.exports, line 682) by a     *)
(* caller that initializes the suite, runs cases one after the other,     *)
(* renders reports and cleans up.                                         *)
(***************************************************************************)

\* the cases a caller runs on one suite
MaxCases == 2

NoCallInProgress == \A e \in Executions : running[e].pc \in { "idle", "returned" }

InitSuite == LoopUnused /\ Constructed /\ runPc = "caller" /\ HelpersUnused

\* await suite.initialize()
CallerInitialize ==
  /\ runPc = "caller"
  /\ now' = now + 1
  /\ \E launchOk \in BOOLEAN, contextOk \in BOOLEAN, pageOk \in BOOLEAN :
       LET r == initialize(launchOk, contextOk, pageOk)
       IN  /\ browser' = r.browser
           /\ runPc' = IF r.thrown = NoError THEN "ready" ELSE "broken"
  /\ UNCHANGED << testResults, running, exitCode, closeCalls, report >>
  /\ UNCHANGED loopVars
  /\ UNCHANGED helperVars

\* suite.runTestCase001(), once the previous call has returned
CallerRunsCase ==
  /\ runPc = "ready"
  /\ NoCallInProgress
  /\ testResults.totalTests < MaxCases
  /\ StartCase(1, now)
  /\ UNCHANGED << browser, testResults, now, runPc, exitCode, closeCalls, report >>
  /\ UNCHANGED loopVars
  /\ UNCHANGED helperVars

\* await suite.generateReport()
CallerReport ==
  /\ runPc \in { "ready", "cleaned" }
  /\ NoCallInProgress
  /\ \E writeOk \in BOOLEAN :
       LET r == generateReport(testResults, writeOk, now)
       IN  /\ report' = Reported(r)
           /\ testResults' = r.testResults
  /\ UNCHANGED << browser, running, now, runPc, exitCode, closeCalls >>
  /\ UNCHANGED loopVars
  /\ UNCHANGED helperVars

\* await suite.cleanup()
CallerCleanup ==
  /\ runPc \in { "ready", "broken" }
  /\ NoCallInProgress
  /\ now' = now + 1
  /\ \E closeOk \in BOOLEAN :
       LET r == cleanup(browser, testResults, closeOk, now')
       IN  /\ browser' = r.browser
           /\ testResults' = r.testResults
           /\ closeCalls' = IF r.closed THEN closeCalls + 1 ELSE closeCalls
  /\ runPc' = "cleaned"
  /\ UNCHANGED << running, exitCode, report >>
  /\ UNCHANGED loopVars
  /\ UNCHANGED helperVars

NextSuite ==
  CallerInitialize \/ CallerRunsCase \/ StepEnds(1) \/ ScreenshotEnds(1)
    \/ CallerReport \/ CallerCleanup

SpecSuite == InitSuite /\ [][NextSuite]_vars

(***************************************************************************)
(* Two calls of runTestCase001 made on one suite without awaiting the     *)
(* first: they interleave at their awaits.                                *)
(***************************************************************************)

\* suite.runTestCase001(), not awaited
ConcurrentCall(e) ==
  /\ runPc = "ready"
  /\ running[e].pc = "idle"
  /\ StartCase(e, now)
  /\ UNCHANGED << browser, testResults, now, runPc, exitCode, closeCalls, report >>
  /\ UNCHANGED loopVars
  /\ UNCHANGED helperVars

NextConcurrent ==
  \/ CallerInitialize
  \/ \E e \in Executions : ConcurrentCall(e) \/ StepEnds(e) \/ ScreenshotEnds(e)

SpecConcurrent == InitSuite /\ [][NextConcurrent]_vars

(***************************************************************************)
(* The detector run on its own against every page snapshot.               *)
(***************************************************************************)

DetectorPages ==
  { Snapshot(d, url, errs, c, a, TRUE, b, pa, t, se, tt, co) :
      d \in BOOLEAN, url \in Urls \cup { Fail },
      errs \in SeqsUpTo({ M_conflict }, MaxErrorElements),
      c \in BOOLEAN, a \in BOOLEAN,
      b \in BOOLEAN, pa \in BOOLEAN, t \in BOOLEAN, se \in BOOLEAN,
      tt \in TitleTexts, co \in Contents }

InitDetector ==
  /\ pc = "detector"
  /\ page \in DetectorPages
  /\ detection = NoDetection
  /\ attempt = 0
  /\ success = FALSE
  /\ userData = NoUser
  /\ freshUserData = NoUser
  /\ form = EmptyForm
  /\ errorMessages = << >>
  /\ stepError = NoError
  /\ submissions = 0
  /\ reloads = 0
  /\ errCalls = 0
  /\ submittedUsers = << >>
  /\ attemptLog = << >>
  /\ trace = << >>
  /\ SuiteUnused
  /\ HelpersUnused

\* const isSuccessful = await registrationPage.isRegistrationSuccessful()
DetectorRun ==
  /\ pc = "detector"
  /\ detection' = isRegistrationSuccessful(page)
  /\ pc' = "detector_done"
  /\ UNCHANGED << attempt, success, userData, freshUserData, form, page,
                  errorMessages, stepError, submissions, reloads, errCalls,
                  submittedUsers, attemptLog, trace >>
  /\ UNCHANGED suiteVars
  /\ UNCHANGED helperVars

NextDetector == DetectorRun

SpecDetector == InitDetector /\ [][NextDetector]_vars

(***************************************************************************)
(* getErrorMessages run on its own against pages whose '.error' elements  *)
(* hold every mix of texts, null texts and failing reads.                 *)
(***************************************************************************)

ErrorTexts == { M_conflict, M_usernameOnly, M_mismatch, M_blank, Null, Fail }

ErrorPages ==
  { Snapshot(TRUE, URL_register, errs, TRUE, TRUE, q,
             FALSE, FALSE, TRUE, FALSE, T_signup, C_plain) :
      errs \in SeqsUpTo(ErrorTexts, MaxErrorElements), q \in BOOLEAN }

InitErrors ==
  /\ pc = "collector"
  /\ page \in ErrorPages
  /\ detection = NoDetection
  /\ attempt = 0
  /\ success = FALSE
  /\ userData = NoUser
  /\ freshUserData = NoUser
  /\ form = EmptyForm
  /\ errorMessages = << >>
  /\ stepError = NoError
  /\ submissions = 0
  /\ reloads = 0
  /\ errCalls = 0
  /\ submittedUsers = << >>
  /\ attemptLog = << >>
  /\ trace = << >>
  /\ SuiteUnused
  /\ HelpersUnused

\* const errors = await registrationPage.getErrorMessages()
ErrorsRun ==
  /\ pc = "collector"
  /\ LET errors == getErrorMessages(page)
     IN  /\ errorMessages' = errors.errorMessages
         /\ errCalls' = errCalls + 1
         /\ IF errors.thrown
              THEN Throw(CallError("getErrorMessages"))
              ELSE pc' = "collector_done" /\ UNCHANGED stepError
  /\ UNCHANGED << attempt, success, userData, freshUserData, form, page,
                  detection, submissions, reloads, submittedUsers, attemptLog,
                  trace >>
  /\ UNCHANGED suiteVars
  /\ UNCHANGED helperVars

NextErrors == ErrorsRun

SpecErrors == InitErrors /\ [][NextErrors]_vars

(***************************************************************************)
(* Properties of the retry loop.                                          *)
(***************************************************************************)

LastAttempt == attemptLog[Len(attemptLog)]

\* the step ended, and not by an error of a browser call or of expect()
EndedByLoop == pc = "done" /\ stepError \in { NoError, RegistrationFailed }

\* case-insensitive containment, character by character
ContainsCI(msg, word) ==
  \E off \in 0..(Len(msg) - Len(word)) :
    \A k \in 1..Len(word) : LowerChar(msg[off + k]) = word[k]

\* one single message names both "username" and "exists"
OneMessageNamesBoth(msgs) ==
  \E i \in 1..Len(msgs) :
    ContainsCI(msgs[i], S_username) /\ ContainsCI(msgs[i], S_exists)

\* so far the page answered: attempts 1 and 2 rejected with "Username
\* already exists", attempt 3 accepted
ConflictTwiceThenAccepted ==
  /\ Len(attemptLog) <= 3
  /\ \A i \in 1..Len(attemptLog) :
       IF i <= 2 THEN ~attemptLog[i].ok /\ attemptLog[i].saidExists
       ELSE attemptLog[i].ok

\* so far every attempt was rejected with "Username already exists"
AlwaysConflict ==
  \A i \in 1..Len(attemptLog) : ~attemptLog[i].ok /\ attemptLog[i].saidExists

\* C1: when the detector answers false with "Username already exists" on
\* attempts 1 and 2 and true on attempt 3, the step ends without an error
\* after exactly 3 submissions and exactly 2 reloads.
C1_ConflictTwiceThenSuccess ==
  (EndedByLoop /\ ConflictTwiceThenAccepted)
    => /\ Len(attemptLog) = 3
       /\ stepError = NoError
       /\ success
       /\ submissions = 3
       /\ reloads = 2

C1_Witness ==
  /\ pc = "done" /\ stepError = NoError
  /\ Len(attemptLog) = 3
  /\ ConflictTwiceThenAccepted
  /\ submissions = 3 /\ reloads = 2

\* C2: when the detector always answers false with a user-name conflict, the
\* step fails after exactly 3 submissions and exactly 2 reloads, and there is
\* never a 4th submission.
C2_ExhaustionAfterThree ==
  /\ submissions <= 3
  /\ (EndedByLoop /\ AlwaysConflict)
       => /\ Len(attemptLog) = 3
          /\ stepError = RegistrationFailed
          /\ submissions = 3
          /\ reloads = 2

C2_Witness ==
  /\ pc = "done" /\ stepError = RegistrationFailed
  /\ Len(attemptLog) = 3 /\ AlwaysConflict
  /\ submissions = 3 /\ reloads = 2

\* C3: the user name submitted on attempt k+1 is not the one submitted on
\* attempt k.
C3_FreshUserEachAttempt ==
  \A k \in 1..(Len(submittedUsers) - 1) :
    submittedUsers[k + 1].username # submittedUsers[k].username

\* C4: when the detector answers false and no single error message names
\* both "username" and "exists" (the empty list included), the loop is left
\* at once, whatever the attempt: no reload, no further fill or submission,
\* and the step fails.
C4_OtherFailureIsTerminal ==
  (Len(attemptLog) > 0 /\ ~LastAttempt.ok /\ ~OneMessageNamesBoth(errorMessages))
    => /\ pc \in { "after", "done" }
       /\ submissions = Len(attemptLog)
       /\ reloads = Len(attemptLog) - 1
       /\ (pc = "done" => stepError = RegistrationFailed)

C4_Witness ==
  /\ pc = "done"
  /\ Len(attemptLog) = 2
  /\ ~LastAttempt.ok
  /\ errorMessages = << M_usernameOnly, M_existsOnly >>
  /\ reloads = 1

\* C5: once the detector answers true the loop stops: getErrorMessages is
\* not asked for that attempt, no reload and no further submission follows,
\* and the step ends without an error.
C5_SuccessStopsLoop ==
  (Len(attemptLog) > 0 /\ LastAttempt.ok)
    => /\ success
       /\ pc \in { "loop", "after", "done" }
       /\ ~LastAttempt.asked
       /\ errCalls = Len(attemptLog) - 1
       /\ submissions = Len(attemptLog)
       /\ reloads = Len(attemptLog) - 1
       /\ (pc = "done" => stepError = NoError)

C5_Witness ==
  /\ pc = "done" /\ stepError = NoError
  /\ Len(attemptLog) = 2 /\ LastAttempt.ok
  /\ errCalls = 1

\* C6: a failed attempt counts as a conflict if and only if one single
\* message of getErrorMessages contains, whatever the case, both "username"
\* and "exists".
C6_ConflictIffOneMessageNamesBoth ==
  (Len(attemptLog) > 0 /\ LastAttempt.asked)
    => (LastAttempt.conflict <=> OneMessageNamesBoth(errorMessages))

C6_Witness ==
  /\ Len(attemptLog) > 0 /\ LastAttempt.asked
  /\ errorMessages = << M_existsOnly, M_usernameOnly >>
  /\ ~LastAttempt.conflict

\* C7: with all 3 attempts used up without success the step fails with the
\* named error "Registration failed after 3 attempts"; an error of a call
\* made inside an attempt leaves the step as that error, never as the named
\* one.
C7_NamedFailureOnlyFromLoop ==
  /\ [](( /\ pc = "done" /\ ~success /\ Len(attemptLog) = maxAttempts
          /\ submissions = maxAttempts )
          => (stepError = RegistrationFailed /\ stepError.n = 3))
  /\ [][ (pc' = "done" /\ pc \in { "loop", "fill", "validate", "submit", "reload" })
           => /\ stepError' # RegistrationFailed
              /\ stepError'.name \in
                   CASE pc = "loop"     -> { "ReferenceError: testData is not defined" }
                     [] pc = "fill"     -> { "fillField" }
                     [] pc = "validate" -> { "expect(isFormValid).toBeTruthy()" }
                     [] pc = "submit"   -> { "clickElement", "handleCloudflareChallenge",
                                             "waitForPageLoad" }
                     [] pc = "reload"   -> { "page.reload", "clickRegisterLink" } ]_vars

C7_Witness ==
  /\ pc = "done"
  /\ submissions = maxAttempts
  /\ stepError = CallError("waitForPageLoad")

(***************************************************************************)
(* Properties of isRegistrationSuccessful.                                *)
(***************************************************************************)

DetectorReturned == pc = "detector_done"

Looked(what) == \E i \in 1..Len(detection.reads) : detection.reads[i] = what

\* a lookup that was made did not yield a usable value
LookupFailed ==
  \/ Looked("waitForTimeout") /\ ~page.delayOk
  \/ Looked("url") /\ page.url = Fail
  \/ Looked("count") /\ ~page.countOk
  \/ Looked("allTextContents") /\ ~page.allTextOk
  \/ Looked("welcomeText") /\ page.titleText \in { Fail, Null }
  \/ Looked("content") /\ page.content = Fail

\* C8: isRegistrationSuccessful never raises; it returns a boolean, and it
\* returns false whenever the settle delay, the URL read, the error-element
\* count, a text read or the page-content read fails.
C8_DetectorNeverRaises ==
  DetectorReturned => /\ ~detection.thrown
               /\ detection.ret \in BOOLEAN
               /\ (LookupFailed => detection.ret = FALSE)

C8_Witness ==
  /\ DetectorReturned
  /\ page.banner = FALSE /\ page.title /\ page.titleText = Fail
  /\ page.section
  /\ Looked("welcomeText")
  /\ detection.ret = FALSE /\ ~detection.thrown

StillOnRegisterPage == page.url # Fail /\ includes(page.url, S_register_htm)

\* C9: with the URL still containing "register.htm" and a nonzero count of
\* '.error' elements the result is false, whatever success markers are on
\* the page at the same time.
C9_RejectionBeatsSuccessSignals ==
  (DetectorReturned /\ StillOnRegisterPage /\ page.countOk /\ Len(page.errors) > 0)
    => detection.ret = FALSE

C9_Witness ==
  /\ DetectorReturned /\ page.delayOk /\ page.url = URL_register
  /\ page.countOk /\ page.allTextOk /\ Len(page.errors) > 0
  /\ page.banner /\ page.para /\ page.title /\ page.section
  /\ page.titleText = T_welcomeUser /\ page.content = C_created
  /\ detection.ret = FALSE /\ detection.via = "errors"

NoLookupFails ==
  /\ page.delayOk /\ page.url # Fail /\ page.countOk /\ page.allTextOk
  /\ page.titleText \notin { Fail, Null } /\ page.content # Fail

Rejected == includes(page.url, S_register_htm) /\ Len(page.errors) > 0

\* the success signals, in the order of the rule list
Affirmative(i) ==
  CASE i = 1 -> page.banner
    [] i = 2 -> page.para
    [] i = 3 -> /\ page.title
                /\ \E off \in 0..(Len(page.titleText) - Len(S_Welcome)) :
                     \A k \in 1..Len(S_Welcome) : page.titleText[off + k] = S_Welcome[k]
    [] i = 4 -> page.section
    [] i = 5 -> \/ ~includes(page.url, S_register_htm)
                \/ includes(page.url, S_overview)
                \/ includes(page.url, S_account)
    [] i = 6 -> \/ ContainsCI(page.content, S_account_was_created)
                \/ ContainsCI(page.content, S_welcome)
                \/ ContainsCI(page.content, S_successful)

\* the lookups that belong to a signal (the URL is read once, up front)
LookupsOf(i) ==
  CASE i = 1 -> { "successMessage" }
    [] i = 2 -> { "usernameParagraph" }
    [] i = 3 -> { "welcomeMessage", "welcomeText" }
    [] i = 4 -> { "accountServicesSection" }
    [] i = 5 -> { }
    [] i = 6 -> { "content" }

\* C10: on a snapshot where no lookup fails the result is that of the
\* ordered rule list: false when rejected, otherwise true iff one of the six
\* signals is affirmative; and no signal after the first affirmative one is
\* looked up.
C10_OrderedRuleList ==
  (DetectorReturned /\ NoLookupFails)
    => /\ detection.ret = (~Rejected /\ \E i \in 1..6 : Affirmative(i))
       /\ Rejected => \A j \in 1..6 : \A w \in LookupsOf(j) : ~Looked(w)
       /\ \A i \in 1..6, j \in 1..6 :
            (i < j /\ Affirmative(i)) => \A w \in LookupsOf(j) : ~Looked(w)

C10_Witness ==
  /\ DetectorReturned /\ NoLookupFails /\ ~Rejected
  /\ ~Affirmative(1) /\ ~Affirmative(2) /\ page.title /\ ~Affirmative(3)
  /\ ~Affirmative(4)
  /\ page.url = URL_registerAccount
  /\ detection.ret = TRUE /\ detection.via = "method5"
  /\ ~Looked("content") /\ Looked("welcomeText")

\* C11: a failing lookup of one signal only makes that signal not
\* affirmative: when the error-element count or the reading of the welcome
\* title fails, a later affirmative signal still yields true.
C11_SignalsFaultTolerant ==
  ( /\ DetectorReturned /\ page.delayOk /\ page.url # Fail
    /\ ~(Rejected /\ page.countOk)
    /\ \E i \in 1..6 : Affirmative(i) )
    => detection.ret = TRUE

\* case-sensitive containment, character by character
Contains(text, word) ==
  \E off \in 0..(Len(text) - Len(word)) :
    \A k \in 1..Len(word) : text[off + k] = word[k]

EndsWith(text, word) ==
  /\ Len(text) >= Len(word)
  /\ \A k \in 1..Len(word) : text[Len(text) - Len(word) + k] = word[k]

NoneVisible == ~page.banner /\ ~page.para /\ ~page.title /\ ~page.section

\* "Your account was created successfully"
Q_accountCreated ==
  << "Y", "o", "u", "r", " ", "a", "c", "c", "o", "u", "n", "t", " ", "w",
     "a", "s", " ", "c", "r", "e", "a", "t", "e", "d", " ", "s", "u", "c",
     "c", "e", "s", "s", "f", "u", "l", "l", "y" >>

\* C12: with the URL containing "overview" and not "register.htm", and none
\* of the banner, the paragraph, the welcome title and the account-services
\* section visible, the result is true and it is the URL check (Method 5)
\* that decides.
C12_OverviewUrlYieldsTrue ==
  ( /\ DetectorReturned /\ page.delayOk /\ page.url # Fail
    /\ Contains(page.url, S_overview) /\ ~Contains(page.url, S_register_htm)
    /\ NoneVisible )
    => /\ detection.ret = TRUE
       /\ detection.via = "method5"
       /\ ~Looked("content")

C12_Witness ==
  /\ DetectorReturned /\ page.delayOk /\ page.url = URL_overview
  /\ NoneVisible /\ page.content = C_plain
  /\ detection.ret = TRUE /\ detection.via = "method5"
  /\ Looked("accountServicesSection")

\* C13: with the URL ending in "register.htm", no '.error' element, none of
\* the four success elements visible and a page content that contains "Your
\* account was created successfully", the result is true and it is the page
\* content check (Method 6) that decides.
C13_PageTextYieldsTrue ==
  ( /\ DetectorReturned /\ page.delayOk /\ page.url # Fail
    /\ EndsWith(page.url, S_register_htm)
    /\ page.countOk /\ Len(page.errors) = 0
    /\ NoneVisible
    /\ page.content # Fail /\ Contains(page.content, Q_accountCreated) )
    => /\ detection.ret = TRUE
       /\ detection.via = "method6"

C13_Witness ==
  /\ DetectorReturned /\ page.delayOk /\ page.url = URL_register
  /\ page.countOk /\ page.errors = << >> /\ NoneVisible
  /\ page.content = C_created
  /\ detection.ret = TRUE /\ detection.via = "method6"
  /\ Looked("count") /\ Looked("content")

\* C14 as stated: whenever the page holds '.error' elements the result is
\* false, whatever the URL.
C14_ErrorsNeverSuccess ==
  (DetectorReturned /\ Len(page.errors) > 0) => detection.ret = FALSE

\* C14: on a page that holds '.error' elements the result can be true only
\* when the URL does not contain "register.htm"; on such a URL the error
\* elements are neither counted nor read.
C14_ErrorsRejectOnlyOnRegisterPage ==
  (DetectorReturned /\ Len(page.errors) > 0)
    => /\ StillOnRegisterPage => detection.ret = FALSE
       /\ (page.url # Fail /\ ~StillOnRegisterPage)
            => ~Looked("count") /\ ~Looked("allTextContents")
       /\ ( /\ page.delayOk /\ page.url # Fail /\ ~StillOnRegisterPage
            /\ page.titleText \notin { Fail, Null } )
            => detection.ret = TRUE

C14_Witness ==
  /\ DetectorReturned /\ page.delayOk /\ page.url = URL_overview
  /\ Len(page.errors) > 0 /\ NoneVisible
  /\ detection.ret = TRUE /\ detection.via = "method5"
  /\ ~Looked("count")

\* C15: the settle delay is the first thing the detector does, it is done
\* once, and when it does not complete nothing is read from the page.
C15_SettleDelayFirst ==
  DetectorReturned
    => /\ Len(detection.reads) >= 1
       /\ detection.reads[1] = "waitForTimeout"
       /\ \A i \in 2..Len(detection.reads) : detection.reads[i] # "waitForTimeout"
       /\ ~page.delayOk => Len(detection.reads) = 1

C15_Witness ==
  /\ DetectorReturned /\ page.delayOk
  /\ Len(detection.reads) = 8
  /\ detection.reads[1] = "waitForTimeout" /\ detection.reads[2] = "url"
  /\ detection.reads[3] = "count"
  /\ Looked("content")

(***************************************************************************)
(* Properties of getErrorMessages.                                        *)
(***************************************************************************)

CollectorReturned == pc \in { "collector_done", "done" } /\ errCalls = 1

Blank(c) == c = " " \/ c = "\t" \/ c = "\n"

HasText(s) == s \notin { Fail, Null } /\ \E i \in 1..Len(s) : ~Blank(s[i])

\* t is s without its leading and trailing whitespace
IsTrimOf(t, s) ==
  /\ Len(t) > 0 /\ ~Blank(t[1]) /\ ~Blank(t[Len(t)])
  /\ \E lead \in 0..(Len(s) - Len(t)) :
       /\ \A i \in 1..lead : Blank(s[i])
       /\ \A i \in 1..Len(t) : s[lead + i] = t[i]
       /\ \A i \in (lead + Len(t) + 1)..Len(s) : Blank(s[i])

\* the '.error' elements that have a text other than whitespace
Kept == { i \in 1..Len(page.errors) : HasText(page.errors[i]) }

\* the k-th of them in document order
NthKept(k) == CHOOSE i \in Kept : Cardinality({ j \in Kept : j < i }) = k - 1

NoGatheringFails ==
  page.queryOk /\ \A i \in 1..Len(page.errors) : page.errors[i] \notin { Fail, Null }

\* C17: when the query and every text read succeed, getErrorMessages returns
\* a sequence (empty for a page without '.error' elements) that holds, in
\* document order, the trimmed text of exactly the elements whose text is
\* not blank; no entry is empty or starts or ends with whitespace.
C17_TrimmedNonEmptyInOrder ==
  (CollectorReturned /\ NoGatheringFails)
    => /\ stepError = NoError
       /\ Len(errorMessages) = Cardinality(Kept)
       /\ \A k \in 1..Len(errorMessages) :
            IsTrimOf(errorMessages[k], page.errors[NthKept(k)])
       /\ Len(page.errors) = 0 => errorMessages = << >>

C17_Witness ==
  /\ CollectorReturned /\ NoGatheringFails
  /\ page.errors = << M_blank, M_mismatch >>
  /\ Len(errorMessages) = 1 /\ Len(errorMessages[1]) = Len(M_mismatch) - 2

GatheringFailed ==
  \/ ~page.queryOk
  \/ \E i \in 1..Len(page.errors) : page.errors[i] \in { Fail, Null }

\* C18: getErrorMessages never raises, and when the query or the reading of
\* the text of any one element fails or yields null it returns the empty
\* sequence.
C18_EmptyOnFailure ==
  CollectorReturned
    => /\ stepError = NoError
       /\ GatheringFailed => errorMessages = << >>

(***************************************************************************)
(* Properties of handleCloudflareChallenge and of its callers.            *)
(***************************************************************************)

\* the i-th browser operation recorded, "-" past the end
At(i) == IF i \in 1..Len(trace) THEN trace[i] ELSE "-"

HandlerCalls == { i \in 1..Len(trace) : trace[i] = "handleCloudflareChallenge" }

\* C19: handleCloudflareChallenge never fails its caller. With the container
\* not seen it returns at once, without waiting for it to hide; with the
\* container seen it waits for it to hide, and when that wait times out it
\* logs and returns all the same: the caller goes on to waitForPageLoad.
C19_ChallengeHandlerNeverFails ==
  /\ stepError # CallError("handleCloudflareChallenge")
  /\ \A i \in HandlerCalls :
       /\ At(i + 1) \in { "isElementVisible:false", "isElementVisible:true" }
       /\ At(i + 1) = "isElementVisible:false"
            => /\ At(i + 2) = "handleCloudflareChallenge:returned"
               /\ At(i + 3) \in { "waitForPageLoad", "waitForPageLoad:rejected" }
       /\ At(i + 1) = "isElementVisible:true"
            => /\ At(i + 2) = "log:detected"
               /\ At(i + 3) \in { "waitForSelector(hidden):resolved",
                                  "waitForSelector(hidden):rejected" }
               /\ At(i + 4) = IF At(i + 3) = "waitForSelector(hidden):resolved"
                                THEN "log:completed" ELSE "log:failed"
               /\ At(i + 5) = "handleCloudflareChallenge:returned"
               /\ At(i + 6) \in { "waitForPageLoad", "waitForPageLoad:rejected" }

C19_Witness ==
  /\ pc = "test" /\ stepError = NoError
  /\ trace = << "navigateTo", "handleCloudflareChallenge", "isElementVisible:true",
                "log:detected", "waitForSelector(hidden):rejected", "log:failed",
                "handleCloudflareChallenge:returned", "waitForPageLoad" >>

\* the handler was called after operation i and returned before operation j
HandledBetween(i, j) ==
  /\ i + 1 < j
  /\ trace[i + 1] = "handleCloudflareChallenge"
  /\ \E k \in (i + 2)..(j - 1) : trace[k] = "handleCloudflareChallenge:returned"

\* what the test does with the home page once open() has returned
HomePageUses == { "isHomePageLoaded", "getTitle", "clickRegisterLink",
                  "clickRegisterLink:rejected", "isRegistrationPageLoaded" }

\* C20: in HomePage.open the handler is called right after navigateTo and
\* has returned before the test uses the page; in every attempt it is called
\* right after the click on Register and has returned before
\* isRegistrationSuccessful is run.
C20_ChallengeHandledAfterLoadAndSubmit ==
  /\ \A i \in 1..Len(trace) :
       trace[i] \in { "navigateTo", "click" } => At(i + 1) = "handleCloudflareChallenge"
  /\ \A j \in 1..Len(trace) :
       trace[j] \in HomePageUses
         => \E i \in 1..(j - 1) : trace[i] = "navigateTo" /\ HandledBetween(i, j)
  /\ \A j \in 1..Len(trace) :
       trace[j] = "isRegistrationSuccessful"
         => \E i \in 1..(j - 1) : trace[i] = "click" /\ HandledBetween(i, j)
  /\ pc = "detect"
       => \E i \in 1..Len(trace) : trace[i] = "click" /\ HandledBetween(i, Len(trace) + 1)
  /\ pc \in { "test", "step1", "step2" }
       => \E i \in 1..Len(trace) : trace[i] = "navigateTo" /\ HandledBetween(i, Len(trace) + 1)

C20_Witness ==
  /\ attempt = 2 /\ submissions = 2
  /\ Len(trace) > 0 /\ trace[Len(trace)] = "isRegistrationSuccessful"
  /\ \E i \in 1..Len(trace) : trace[i] = "click" /\ HandledBetween(i, Len(trace))

(***************************************************************************)
(* Properties of ParaBankTestSuite.run.                                   *)
(***************************************************************************)

ProcessEnded == runPc = "exited"

InitializeThrew == running[1].pc = "idle"

ReportThrew == report.rendered /\ report.thrown # NoError

\* C21: when the process ends after a run that launched the browser,
\* browser.close() was called exactly once.
C21_BrowserClosedOnce ==
  (ProcessEnded /\ browser # "null") => closeCalls = 1

\* C22 as stated: the status is non-zero if failedTests > 0 and zero
\* otherwise, whatever initialization, the case and the report did.
C22_ExitStatusByFailedCount ==
  ProcessEnded => (exitCode # 0 <=> testResults.failedTests > 0)

\* C22: the process exits with 1 when failedTests > 0, and also when
\* initialize or generateReport threw; with 0 in every other run.
C22_ExitStatusByFailedCountOrError ==
  ProcessEnded
    => exitCode = IF \/ testResults.failedTests > 0
                     \/ InitializeThrew
                     \/ ReportThrew
                    THEN 1 ELSE 0

C22_Witness ==
  /\ ProcessEnded /\ exitCode = 1
  /\ testResults.failedTests = 1 /\ testResults.totalTests = 1
  /\ report.rendered /\ report.thrown = NoError

(***************************************************************************)
(* Properties of executeStep and runTestCase001, for any caller of the    *)
(* exported class.                                                         *)
(***************************************************************************)

\* the executions in which a call of executeStep has ended
StepEnded == { e \in Executions : running[e].ended # NoStep }

\* C23: a call of executeStep that has ended left its step record PASSED
\* with the returned value, no error and an end time when the step function
\* returned, and FAILED with the error's message and an end time when it
\* threw, in which case the same error was rethrown; never RUNNING.
C23_StepRecordFinalized ==
  \A e \in StepEnded :
    LET x == running[e] IN
      /\ x.ended.status # "RUNNING"
      /\ x.ended.endTime # NoDate
      /\ x.outcome.thrown = NoError
           => /\ x.ended.status = "PASSED"
              /\ x.ended.result = x.outcome.value
              /\ x.ended.error = Null
              /\ x.endedThrown = NoError
      /\ x.outcome.thrown # NoError
           => /\ x.ended.status = "FAILED"
              /\ x.ended.error = Text(x.outcome.thrown.name)
              /\ x.ended.result = Null
              /\ x.endedThrown = x.outcome.thrown

C23_Witness ==
  /\ 1 \in StepEnded
  /\ running[1].k = 3
  /\ running[1].outcome = StepThrowsError("page.fill: Timeout exceeded [name=repeatedPassword]")
  /\ running[1].ended.status = "FAILED"
  /\ Len(running[1].testCase.steps) = 2

\* the step records of the case of execution e
StepsOf(e) == running[e].testCase.steps

InSteps(step, steps) == \E i \in 1..Len(steps) : steps[i] = step

\* C24: when a step has failed, its FAILED record is an element of the
\* steps of its case.
C24_FailedStepInCaseSteps ==
  \A e \in StepEnded :
    running[e].ended.status = "FAILED" => InSteps(running[e].ended, StepsOf(e))

\* the step of execution e that the next state ends with a throw
StepFails(e) == running[e].pc = "step" /\ running'[e].endedThrown # NoError

ScreenshotSettles(e) == running[e].pc = "screenshot" /\ running'[e].pc # "screenshot"

Returns(e) == running[e].pc # "returned" /\ running'[e].pc = "returned"

\* C25: runTestCase001 returns and never throws; when a step throws, the
\* case becomes FAILED with the error's message and failedTests grows by one;
\* the screenshot, saved or not, changes neither the status nor the counts
\* of passed and failed cases; the case is then appended and returned.
C25_CaseFailureContained ==
  [][ \A e \in Executions :
        /\ StepFails(e)
             => /\ running'[e].testCase.status = "FAILED"
                /\ running'[e].testCase.error = Text(running'[e].endedThrown.name)
                /\ testResults'.failedTests = testResults.failedTests + 1
                /\ testResults'.passedTests = testResults.passedTests
                /\ running'[e].pc = "screenshot"
        /\ ScreenshotSettles(e)
             => /\ running'[e].testCase = running[e].testCase
                /\ testResults'.failedTests = testResults.failedTests
                /\ testResults'.passedTests = testResults.passedTests
                /\ running'[e].pc = "returned"
        /\ Returns(e)
             => /\ running'[e].thrown = NoError
                /\ testResults'.testCases
                     = Append(testResults.testCases, running'[e].testCase)
                /\ testResults'.totalTests = testResults.totalTests + 1
    ]_vars

C25_Witness ==
  /\ running[1].pc = "returned"
  /\ running[1].screenshot = "failed"
  /\ running[1].testCase.status = "FAILED"
  /\ running[1].testCase.error = Text("Welcome message not found after registration")
  /\ testResults.failedTests = 1
  /\ testResults.totalTests = 1
  /\ testResults.testCases = << running[1].testCase >>

(***************************************************************************)
(* Properties of the report.                                               *)
(***************************************************************************)

CaseEnded(e) ==
  /\ running[e].pc = "returned"
  /\ running[e].testCase.status \in { "PASSED", "FAILED" }

\* run() is past the call of generateReport
PastReport == runPc \in { "summary", "catch", "exited" }

\* C26: in a run whose initialization succeeded, generateReport has been
\* called by the time run() reaches the summary, the catch clause or the
\* exit, and it was called after the case ended PASSED or FAILED: the
\* document it rendered holds that case with that status.
C26_ReportAfterCaseBeforeExit ==
  /\ (PastReport /\ ~InitializeThrew) => report.rendered
  /\ report.rendered
       => /\ CaseEnded(1)
          /\ PastReport
          /\ Len(report.document.testCases) = 1
          /\ report.document.testCases[1].status = running[1].testCase.status

C26_Witness ==
  /\ ProcessEnded
  /\ report.rendered
  /\ report.document.testCases[1].status = "FAILED"
  /\ running[1].screenshot = "saved"

\* C27: a call of generateReport leaves testResults as it found it.
C27_ReportLeavesRunRecord ==
  [][ report' # report => testResults' = testResults ]_vars

C27_Witness ==
  /\ report.rendered
  /\ runPc = "cleaned"
  /\ testResults.endTime # NoDate
  /\ report.document.endTimeRead = testResults.endTime
  /\ report.document.totalTests = MaxCases
  /\ Len(testResults.testCases) = MaxCases

\* C28: when generateReport reads the run record, its endTime is set and
\* the duration endTime - startTime it renders is not negative.
C28_RunRecordEndedWhenRendered ==
  report.rendered
    => /\ report.document.endTimeRead # NoDate
       /\ report.document.duration >= 0

(***************************************************************************)
(* Properties of the counts of the run record.                             *)
(***************************************************************************)

\* the number of recorded cases with the given status
CasesWith(status) ==
  Cardinality({ i \in 1..Len(testResults.testCases) :
                  testResults.testCases[i].status = status })

\* C29: when every call of runTestCase001 made so far has returned,
\* totalTests = passedTests + failedTests = the number of recorded cases,
\* passedTests and failedTests count the PASSED and the FAILED cases, every
\* recorded case has ended, and a case has an error exactly when FAILED.
C29_CountsMatchRecordedCases ==
  NoCallInProgress
    => /\ testResults.totalTests = testResults.passedTests + testResults.failedTests
       /\ testResults.totalTests = Len(testResults.testCases)
       /\ testResults.passedTests = CasesWith("PASSED")
       /\ testResults.failedTests = CasesWith("FAILED")
       /\ \A i \in 1..Len(testResults.testCases) :
            LET testCase == testResults.testCases[i] IN
              /\ testCase.status # "RUNNING"
              /\ testCase.endTime # NoDate
              /\ testCase.error # Null <=> testCase.status = "FAILED"

C29_Witness ==
  /\ NoCallInProgress
  /\ testResults.totalTests = MaxCases
  /\ testResults.passedTests = 1
  /\ testResults.failedTests = 1
  /\ testResults.testCases[1].status = "FAILED"
  /\ testResults.testCases[2].status = "PASSED"

\* execution e has counted its failed case (line 507) and has not yet
\* appended it (lines 523-524)
MidFinalize(e) == running[e].pc = "screenshot"

\* the whole finalize of execution f ran after execution e began its own
FinalizedAfterStartOf(f, e) ==
  /\ running[f].pc = "returned"
  /\ ToNumber(running[f].testCase.endTime) > ToNumber(running[e].testCase.endTime)

\* C30: the finalizations of two concurrent executions do not interleave:
\* while one execution is between its count increment and its append, the
\* other neither begins nor completes a finalize.
C30_FinalizationsSerialized ==
  \A e \in Executions, f \in Executions :
    (e # f /\ MidFinalize(e))
      => /\ ~MidFinalize(f)
         /\ ~FinalizedAfterStartOf(f, e)

(***************************************************************************)
(* The order of the steps of TC 001 in ParaBankTestSuite.                  *)
(***************************************************************************)

\* the steps recorded are the first n steps as written, each PASSED, each
\* started no earlier than the one before it ended
FirstStepsPassedInOrder(steps, n) ==
  /\ Len(steps) = n
  /\ \A i \in 1..n :
       /\ steps[i].name = StepNames[i]
       /\ steps[i].status = "PASSED"
       /\ steps[i].endTime # NoDate
  /\ \A i \in 1..(n - 1) :
       ToNumber(steps[i].endTime) <= ToNumber(steps[i + 1].startTime)

\* C31: the five steps of TC 001 run in the written order, a step starts
\* only after the one before it ended PASSED, no step is started after a
\* step failed, and the case is PASSED only if all five steps PASSED.
C31_StepsInWrittenOrder ==
  \A e \in Executions :
    LET x == running[e] IN
      /\ x.pc = "step"
           => /\ x.k \in 1..NumSteps
              /\ x.step.name = StepNames[x.k]
              /\ x.step.status = "RUNNING"
              /\ FirstStepsPassedInOrder(x.testCase.steps, x.k - 1)
              /\ x.k > 1 => ToNumber(x.testCase.steps[x.k - 1].endTime)
                              <= ToNumber(x.step.startTime)
      /\ (x.pc # "idle" /\ x.endedThrown # NoError)
           => /\ x.pc \in { "screenshot", "returned" }
              /\ x.step = NoStep
              /\ x.ended.name = StepNames[x.k]
              /\ FirstStepsPassedInOrder(x.testCase.steps, x.k - 1)
              /\ x.testCase.status = "FAILED"
      /\ x.testCase.status = "PASSED"
           => FirstStepsPassedInOrder(x.testCase.steps, NumSteps)

C31_Witness ==
  /\ running[1].pc = "returned"
  /\ running[1].k = 4
  /\ running[1].endedThrown = CallError("page.waitForSelector: Timeout exceeded")
  /\ Len(running[1].testCase.steps) = 3
  /\ running[1].testCase.status = "FAILED"

(***************************************************************************)
(* The registration form used on its own, as TC 004 (lines 174-188) and   *)
(* TC 007 (lines 248-253) use it: fillRegistrationForm, clearForm and     *)
(* validateFormData called in any order.                                   *)
(*   userData       the data of the latest fillRegistrationForm call if   *)
(*                  it resolved and nothing touched the form since        *)
(*   freshUserData  the expected data of the latest validateFormData call *)
(*   success        what that call returned                               *)
(*   trace          the calls made and how they went                      *)
(***************************************************************************)

\* the calls made on the form in one test
MaxFormCalls == 4

UserA == generateUniqueUser(BaseTime, 42, << >>)

UserB == generateUniqueUser(BaseTime, 0, << >>)

\* UserA with another address: equal in the three fields that are read back
UserA_moved == [ UserA EXCEPT !.address = UserB.address ]

FormUsers == { UserA, UserB }

ExpectedUsers == { UserA, UserB, UserA_moved }

\* the number of fillField calls that resolve before one rejects
FillStops == { 0, 2, 9, NumFields }

\* the inputs whose page.fill(field, '') rejects in clearForm
ClearRejections == { {}, { "username" }, FormFields }

formUnused ==
  << page, detection, errorMessages, stepError, submissions, reloads,
     errCalls, submittedUsers, attemptLog >>

InitForm ==
  /\ pc = "form"
  /\ attempt = 0
  /\ success = FALSE
  /\ userData = NoUser
  /\ freshUserData = NoUser
  /\ form = EmptyForm
  /\ page = FreshRegisterPage
  /\ detection = NoDetection
  /\ errorMessages = << >>
  /\ stepError = NoError
  /\ submissions = 0
  /\ reloads = 0
  /\ errCalls = 0
  /\ submittedUsers = << >>
  /\ attemptLog = << >>
  /\ trace = << >>
  /\ SuiteUnused
  /\ HelpersUnused

\* await registrationPage.fillRegistrationForm(d)
FormFill ==
  /\ pc = "form"
  /\ attempt < MaxFormCalls
  /\ attempt' = attempt + 1
  /\ \E d \in FormUsers, k \in FillStops :
       /\ form' = fillRegistrationForm(form, d, k)
       /\ userData' = IF k = NumFields THEN d ELSE NoUser
       /\ trace' = Append(trace, IF k = NumFields THEN "fillRegistrationForm:resolved"
                                                  ELSE "fillRegistrationForm:rejected")
  /\ UNCHANGED << pc, success, freshUserData >>
  /\ UNCHANGED formUnused
  /\ UNCHANGED suiteVars
  /\ UNCHANGED helperVars

\* await registrationPage.clearForm()
FormClear ==
  /\ pc = "form"
  /\ attempt < MaxFormCalls
  /\ attempt' = attempt + 1
  /\ \E rejected \in ClearRejections : form' = clearForm(form, rejected)
  /\ userData' = NoUser
  /\ trace' = Append(trace, "clearForm")
  /\ UNCHANGED << pc, success, freshUserData >>
  /\ UNCHANGED formUnused
  /\ UNCHANGED suiteVars
  /\ UNCHANGED helperVars

\* const isFormValid = await registrationPage.validateFormData(expected);
\* the test ends with the expectation on it
FormValidate ==
  /\ pc = "form"
  /\ attempt < MaxFormCalls
  /\ attempt' = attempt + 1
  /\ \E expected \in ExpectedUsers, readOk \in BOOLEAN :
       /\ freshUserData' = expected
       /\ success' = validateFormData(form, expected, readOk)
       /\ trace' = Append(trace, IF readOk THEN "validateFormData:read"
                                           ELSE "validateFormData:unreadable")
  /\ pc' = "validated"
  /\ UNCHANGED << userData, form >>
  /\ UNCHANGED formUnused
  /\ UNCHANGED suiteVars
  /\ UNCHANGED helperVars

NextForm == FormFill \/ FormClear \/ FormValidate

SpecForm == InitForm /\ [][NextForm]_vars

LastCall == trace[Len(trace)]

\* validateFormData(d) has just been called on a form whose latest call
\* before it was a fillRegistrationForm(d) that resolved
ValidatedAfterFill ==
  /\ pc = "validated"
  /\ userData # NoUser
  /\ freshUserData = userData

C35_TrueOnlyIfAllFieldsMatch ==
  (pc = "validated" /\ success)
    => \A f \in FormFields : form[f] = FieldValue(freshUserData, f)

(***************************************************************************)
(* generateUniqueUser called repeatedly (test-data/userData.js, lines     *)
(* 117-133).                                                               *)
(*   submittedUsers  the values returned so far, in order                 *)
(*   trace           the Date.now() reading of each call                  *)
(*   userData        the value returned last                              *)
(***************************************************************************)

\* the consecutive generations
MaxGenerations == 2

InitGenerator ==
  /\ pc = "generator"
  /\ attempt = 0
  /\ success = FALSE
  /\ userData = NoUser
  /\ freshUserData = NoUser
  /\ form = EmptyForm
  /\ page = BlankPage
  /\ detection = NoDetection
  /\ errorMessages = << >>
  /\ stepError = NoError
  /\ submissions = 0
  /\ reloads = 0
  /\ errCalls = 0
  /\ submittedUsers = << >>
  /\ attemptLog = << >>
  /\ trace = << >>
  /\ SuiteUnused
  /\ HelpersUnused

\* the clock does not run backwards between two calls
ClockReadings ==
  { t \in Timestamps : trace = << >> \/ t >= trace[Len(trace)] }

\* const user = generateUniqueUser()
Generate ==
  /\ pc = "generator"
  /\ Len(submittedUsers) < MaxGenerations
  /\ \E timestamp \in ClockReadings, randomNum \in RandomNums, tail \in RandomTails :
       /\ userData' = generateUniqueUser(timestamp, randomNum, tail)
       /\ submittedUsers' = Append(submittedUsers, userData')
       /\ trace' = Append(trace, timestamp)
  /\ UNCHANGED << pc, attempt, success, freshUserData, form, page, detection,
                  errorMessages, stepError, submissions, reloads, errCalls,
                  attemptLog >>
  /\ UNCHANGED suiteVars
  /\ UNCHANGED helperVars

NextGenerator == Generate

SpecGenerator == InitGenerator /\ [][NextGenerator]_vars

RegistrantFields ==
  { "firstName", "lastName", "address", "city", "state", "zipCode", "phone",
    "ssn", "username", "password" }

\* s is a string of at least one character
NonEmptyString(s) ==
  /\ Len(s) > 0
  /\ \A i \in 1..Len(s) : s[i] \in STRING

\* C33: every field of every value generateUniqueUser returns is a
\* non-empty string, and the value has exactly the ten fields.
C33_FieldsNonEmpty ==
  \A i \in 1..Len(submittedUsers) :
    /\ DOMAIN submittedUsers[i] = RegistrantFields
    /\ \A f \in RegistrantFields : NonEmptyString(submittedUsers[i][f])

C33_Witness ==
  /\ Len(submittedUsers) = 1
  /\ submittedUsers[1] = generateUniqueUser(BaseTime, 0, << >>)
  /\ submittedUsers[1].zipCode = << "0", "0", "0", "0", "0" >>
  /\ Len(submittedUsers[1].username) > 1

SameUsername(i, j) == submittedUsers[i].username = submittedUsers[j].username

Positions ==
  { "loop", "fill", "validate", "submit", "detect", "reload", "after", "done" }

\* the step is not over and moves on: the await it is at settles, or the
\* loop test or the final check is made
Settles == pc # "done" /\ pc' \in Positions \ { pc }

SpecLive == Spec /\ WF_pc(Settles)

\* the step has ended: it returned or threw
StepOver == pc = "done"

\* C36: the retry loop always terminates, in Success or with an error,
\* after at most 3 submissions and 2 reloads; attempt never exceeds 3.
\* (Wherever the step is not over it can move on, so the fairness of
\* SpecLive asks for nothing the step cannot do. Detect is left out of the
\* enabledness test: it has no guard but its position.)
C36_LoopTerminates ==
  /\ [](/\ pc \in Positions
        /\ pc \notin { "done", "detect" }
             => ENABLED (LoopTest \/ Fill \/ Validate \/ Submit \/ Reload \/ EndStep)
        /\ attempt <= maxAttempts
        /\ submissions <= maxAttempts
        /\ reloads <= maxAttempts - 1
        /\ StepOver => (success \/ stepError # NoError))
  /\ <>[]StepOver

C36_Witness ==
  /\ StepOver
  /\ attempt = maxAttempts
  /\ submissions = maxAttempts
  /\ reloads = maxAttempts - 1
  /\ success

\* C39: when the step throws 'Registration failed after N attempts', the
\* submissions made in the step are N.
C39_NamedFailureCountsAttempts ==
  stepError = RegistrationFailed => submissions = stepError.n

(***************************************************************************)
(* pages/BasePage.js : the element primitives. Each yields the error it   *)
(* ends with (NoError when it returns) and the browser calls it made.     *)
(***************************************************************************)

\* waitForElement (lines 285-290)
waitForElement(waitOk) ==
  Called(IF waitOk THEN NoError ELSE CallError("page.waitForSelector: Timeout"),
         << "page.waitForSelector" >>)

\* await the browser action that follows the wait of a primitive
ThenAct(waited, action, actionOk) ==
  IF waited.error # NoError THEN waited
  ELSE Called(IF actionOk THEN NoError ELSE CallError(action),
              Append(waited.calls, action))

\* clickElement (lines 296-299)
clickElement(waitOk, clickOk) ==
  ThenAct(waitForElement(waitOk), "page.click", clickOk)

\* variant: a wait that timed out is made once more before giving up
fillField_waitsAgain(waitOk, fillOk) ==
  IF waitOk THEN ThenAct(waitForElement(waitOk), "page.fill", fillOk)
  ELSE Called(waitForElement(waitOk).error,
              waitForElement(waitOk).calls \o waitForElement(waitOk).calls)

\* fillField (lines 306-309)
fillField(waitOk, fillOk) ==
  ThenAct(waitForElement(waitOk), "page.fill", fillOk)

\* getTextContent (lines 316-319)
getTextContent(waitOk, textOk) ==
  ThenAct(waitForElement(waitOk), "page.textContent", textOk)

\* what a caller gets from one call of a primitive
PrimitiveCalled(primitive, waitOk, r, value) ==
  [ primitive |-> primitive, waitOk |-> waitOk, error |-> r.error,
    calls |-> r.calls, value |-> value ]

\* every way a call of a primitive can go
PrimitiveCalls ==
  { PrimitiveCalled("waitForElement", w, waitForElement(w), "undefined") :
      w \in BOOLEAN }
  \cup
  { PrimitiveCalled("clickElement", w, clickElement(w, a), "undefined") :
      w \in BOOLEAN, a \in BOOLEAN }
  \cup
  { PrimitiveCalled("fillField", w, fillField(w, a), "undefined") :
      w \in BOOLEAN, a \in BOOLEAN }
  \cup
  { PrimitiveCalled("getTextContent", w, getTextContent(w, a),
                    IF w /\ a THEN "text" ELSE "undefined") :
      w \in BOOLEAN, a \in BOOLEAN }
  \cup
  { PrimitiveCalled("isElementVisible", w,
                    Called(NoError, << "page.waitForSelector" >>),
                    IF isElementVisible(w) THEN "true" ELSE "false") :
      w \in BOOLEAN }

(***************************************************************************)
(* The primitives called one after the other by a page object, next to    *)
(* the retry loop that calls them through fillRegistrationForm and        *)
(* submitRegistration.                                                     *)
(*   attemptLog  what each call of a primitive gave, in order             *)
(***************************************************************************)

\* the calls of primitives followed
MaxPrimitiveCalls == 2

InitPrimitives ==
  /\ pc = "primitives"
  /\ attempt = 0
  /\ success = FALSE
  /\ userData = NoUser
  /\ freshUserData = NoUser
  /\ form = EmptyForm
  /\ page = FreshRegisterPage
  /\ detection = NoDetection
  /\ errorMessages = << >>
  /\ stepError = NoError
  /\ submissions = 0
  /\ reloads = 0
  /\ errCalls = 0
  /\ submittedUsers = << >>
  /\ attemptLog = << >>
  /\ trace = << >>
  /\ SuiteUnused
  /\ HelpersUnused

CallPrimitive ==
  /\ pc = "primitives"
  /\ Len(attemptLog) < MaxPrimitiveCalls
  /\ \E called \in PrimitiveCalls : attemptLog' = Append(attemptLog, called)
  /\ UNCHANGED << pc, attempt, success, userData, freshUserData, form, page,
                  detection, errorMessages, stepError, submissions, reloads,
                  errCalls, submittedUsers, trace >>
  /\ UNCHANGED suiteVars
  /\ UNCHANGED helperVars

InitTimeouts == Init \/ InitPrimitives

NextTimeouts == Next \/ CallPrimitive

SpecTimeouts == InitTimeouts /\ [][NextTimeouts]_vars

\* how often call occurs in calls
Occurrences(calls, call) ==
  Cardinality({ i \in 1..Len(calls) : calls[i] = call })

BrowserActions == { "page.click", "page.fill", "page.textContent" }

\* one call of a primitive, as the claim has it
NoRetryInside(called) ==
  /\ Occurrences(called.calls, "page.waitForSelector") = 1
  /\ \A action \in BrowserActions : Occurrences(called.calls, action) <= 1
  /\ called.primitive # "isElementVisible"
       => /\ ~called.waitOk
              => /\ called.error = CallError("page.waitForSelector: Timeout")
                 /\ called.calls = << "page.waitForSelector" >>
          /\ called.error = NoError => called.waitOk
  /\ called.primitive = "isElementVisible"
       => /\ called.error = NoError
          /\ called.value = IF called.waitOk THEN "true" ELSE "false"
  /\ (called.error = NoError /\ ~called.waitOk)
       => called.primitive = "isElementVisible"

\* an error thrown while the loop fills or submits
FillOrSubmitThrows == pc \in { "fill", "submit" } /\ stepError' # NoError

MaxRetriesPassed == 4

\* the values of baseDelay passed, in milliseconds (1000 is the default)
BaseDelays == { 0, 250, 1000 }

\* Math.pow(base, n) for a natural n
RECURSIVE Pow(_, _)
Pow(base, n) == IF n = 0 THEN 1 ELSE base * Pow(base, n - 1)

\* what awaiting fn() gives
FnReturns(v) == [ thrown |-> NoError, value |-> v ]

FnThrows(message) == [ thrown |-> CallError(message), value |-> "undefined" ]

FnOutcomes ==
  { FnReturns("a"), FnReturns("b"), FnThrows("timeout"), FnThrows("refused") }

\* the loop test (line 170)
LoopEnters(a, maxRetries) == a <= maxRetries

\* variant: the delay grows by baseDelay per attempt
BackoffDelay_linear(baseDelay, a) == baseDelay * a

\* line 178
BackoffDelay(baseDelay, a) == baseDelay * Pow(2, a - 1)

CalledFn(a, outcome) == [ kind |-> "fn", attempt |-> a, outcome |-> outcome ]

Waited(a, delay) == [ kind |-> "wait", attempt |-> a, delay |-> delay ]

\* the loop test, then either the call of fn up to its await or, the loop
\* being over, the end of the function, which returns undefined
EnterLoop(b, a) ==
  IF LoopEnters(a, b.maxRetries)
    THEN [ b EXCEPT !.pc = "fn", !.attempt = a ]
    ELSE [ b EXCEPT !.pc = "returned", !.attempt = a, !.value = "undefined" ]

InitBackoff ==
  /\ LoopUnused
  /\ SuiteUnused
  /\ \E maxRetries \in 0..MaxRetriesPassed, baseDelay \in BaseDelays :
       backoff = [ pc |-> "called", maxRetries |-> maxRetries,
                   baseDelay |-> baseDelay, attempt |-> 0, log |-> << >>,
                   value |-> "undefined", error |-> NoError ]

\* retryWithBackoff(fn, maxRetries, baseDelay) up to its first await
CallRetryWithBackoff ==
  /\ backoff.pc = "called"
  /\ backoff' = EnterLoop(backoff, 1)
  /\ UNCHANGED << loopVars, suiteVars >>

\* await fn() settles: return its value (line 172), or catch its error and
\* rethrow it on the last attempt (lines 174-176), or start the wait
\* (lines 178-180)
FnSettles ==
  /\ backoff.pc = "fn"
  /\ \E outcome \in FnOutcomes :
       LET b == [ backoff EXCEPT !.log = Append(@, CalledFn(backoff.attempt, outcome)) ]
           delay == BackoffDelay(b.baseDelay, b.attempt)
       IN  backoff' =
             IF outcome.thrown = NoError
               THEN [ b EXCEPT !.pc = "returned", !.value = outcome.value ]
             ELSE IF b.attempt = b.maxRetries
               THEN [ b EXCEPT !.pc = "threw", !.error = outcome.thrown ]
             ELSE [ b EXCEPT !.pc = "wait",
                             !.log = Append(@, Waited(b.attempt, delay)) ]
  /\ UNCHANGED << loopVars, suiteVars >>

\* await this.wait(delay) settles: attempt++ and the loop test again
WaitSettles ==
  /\ backoff.pc = "wait"
  /\ backoff' = EnterLoop(backoff, backoff.attempt + 1)
  /\ UNCHANGED << loopVars, suiteVars >>

NextBackoff == CallRetryWithBackoff \/ FnSettles \/ WaitSettles

SpecBackoff == InitBackoff /\ [][NextBackoff]_vars

BackoffOver == backoff.pc \in { "returned", "threw" }

\* the calls of fn made so far, in order
FnCalls == SelectSeq(backoff.log, LAMBDA x : x.kind = "fn")

\* what the claim says of a call of retryWithBackoff in its current state
BackoffAsClaimed ==
  LET b == backoff
      n == Len(FnCalls)
  IN  \* at most maxRetries calls, one after the other, each followed by
      \* its wait: call k is entry 2k-1 of the log, its wait entry 2k
      /\ n <= b.maxRetries
      /\ \A i \in 1..Len(b.log) :
           IF i % 2 = 1
             THEN b.log[i].kind = "fn" /\ b.log[i].attempt = (i + 1) \div 2
             ELSE /\ b.log[i].kind = "wait"
                  /\ b.log[i - 1].outcome.thrown # NoError
                  /\ b.log[i].delay = b.baseDelay * Pow(2, (i \div 2) - 1)
      \* no call is made while a call or a wait is pending
      /\ b.pc = "fn" => Len(b.log) = 2 * (b.attempt - 1)
      /\ b.pc = "wait" => Len(b.log) = 2 * b.attempt
      \* every call but the last one made has failed
      /\ \A k \in 1..(n - 1) : FnCalls[k].outcome.thrown # NoError
      \* it ends with the value of the first call that succeeds, or, all
      \* maxRetries calls having failed, with the error of the last one, and
      \* no wait follows the last call
      /\ BackoffOver
           => /\ n >= 1
              /\ b.log[Len(b.log)] = FnCalls[n]
              /\ b.pc = "returned"
                   => /\ FnCalls[n].outcome.thrown = NoError
                      /\ b.value = FnCalls[n].outcome.value
              /\ b.pc = "threw"
                   => /\ n = b.maxRetries
                      /\ FnCalls[n].outcome.thrown # NoError
                      /\ b.error = FnCalls[n].outcome.thrown

Started == backoff.pc \notin { "not called", "called" }

Title_created ==
  << "P", "a", "r", "a", "B", "a", "n", "k", " ", "|", " ", "C", "u", "s",
     "t", "o", "m", "e", "r", " ", "C", "r", "e", "a", "t", "e", "d" >>

\* "Error"
Title_error ==
  << "E", "r", "r", "o", "r" >>

\* "Customer Created"
S_Customer_Created ==
  << "C", "u", "s", "t", "o", "m", "e", "r", " ", "C", "r", "e", "a", "t",
     "e", "d" >>

\* "ParaBank"
S_ParaBank ==
  << "P", "a", "r", "a", "B", "a", "n", "k" >>

\* "successfully"
S_successfully ==
  << "s", "u", "c", "c", "e", "s", "s", "f", "u", "l", "l", "y" >>

\* "created"
S_created ==
  << "c", "r", "e", "a", "t", "e", "d" >>

\* "Welcome testuser1 Your account was created successfully. You are now logged in."
Body_created ==
  << "W", "e", "l", "c", "o", "m", "e", " ", "t", "e", "s", "t", "u", "s",
     "e", "r", "1", " ", "Y", "o", "u", "r", " ", "a", "c", "c", "o", "u",
     "n", "t", " ", "w", "a", "s", " ", "c", "r", "e", "a", "t", "e", "d",
     " ", "s", "u", "c", "c", "e", "s", "s", "f", "u", "l", "l", "y", ".",
     " ", "Y", "o", "u", " ", "a", "r", "e", " ", "n", "o", "w", " ", "l",
     "o", "g", "g", "e", "d", " ", "i", "n", "." >>

\* "Welcome to the bank"
Body_welcome ==
  << "W", "e", "l", "c", "o", "m", "e", " ", "t", "o", " ", "t", "h", "e",
     " ", "b", "a", "n", "k" >>

\* "An internal error has occurred"
Body_error ==
  << "A", "n", " ", "i", "n", "t", "e", "r", "n", "a", "l", " ", "e", "r",
     "r", "o", "r", " ", "h", "a", "s", " ", "o", "c", "c", "u", "r", "r",
     "e", "d" >>

Counted(n) == [ rejected |-> FALSE, n |-> n ]

CountRejected == [ rejected |-> TRUE, n |-> 0 ]

VerifyTitles == { Title_created, Title_error, Fail }

VerifyCounts == { Counted(0), Counted(1), CountRejected }

VerifyBodies == { Body_created, Body_welcome, Body_error, Fail }

VerifyPages ==
  [ title : VerifyTitles, welcomeUser : BOOLEAN, welcomeCount : VerifyCounts,
    successCount : VerifyCounts, welcomeVisible : { "true", "false", "rejected" },
    body : VerifyBodies ]

\* one entry of verifications: passed is the mark, a check or a cross
Verification(passed, text) == [ passed |-> passed, text |-> text ]

\* textContent('body').catch(() => '')
BodyTextOrEmpty(o) == IF o.body = Fail THEN << >> ELSE o.body

\* lines 461-465
VerifyTitle(o) ==
  IF includes(o.title, S_Customer_Created) \/ includes(o.title, S_ParaBank)
    THEN Verification(TRUE, "Page title indicates successful registration")
    ELSE Verification(FALSE, "Unexpected page title")

\* lines 468-479
VerifyWelcome(o) ==
  IF o.welcomeVisible = "true"
    THEN Verification(TRUE, "Welcome message for username displayed")
  ELSE IF includes(BodyTextOrEmpty(o), S_Welcome)
    THEN Verification(TRUE, "General welcome message found (user may be logged in)")
    ELSE Verification(FALSE, "No welcome message found")

\* lines 482-492
VerifySuccess(o) ==
  IF o.successCount.n > 0
    THEN Verification(TRUE, "Success message displayed")
  ELSE IF \/ includes(BodyTextOrEmpty(o), S_successfully)
          \/ includes(BodyTextOrEmpty(o), S_created)
    THEN Verification(TRUE, "Success indicators found in page content")
    ELSE Verification(FALSE, "No clear success message found")

\* what the step function saw, beside what it returned or threw
Seeing(outcome, o) ==
  [ thrown |-> outcome.thrown, value |-> outcome.value, seen |-> o ]

\* the step function (lines 438-494); its value is verifications, the
\* lines that join('\n') puts together
verifyWelcomeMessage(o) ==
  IF o.title = Fail
    THEN Seeing(StepThrowsError("page.title: Target closed"), o)
  ELSE IF ~o.welcomeUser /\ o.welcomeCount.rejected
    THEN Seeing(StepThrowsError("locator.count: Target closed"), o)
  ELSE IF ~o.welcomeUser /\ ~(o.welcomeCount.n > 0)
    THEN Seeing(StepThrowsError("Welcome message not found after registration"), o)
  ELSE IF o.successCount.rejected
    THEN Seeing(StepThrowsError("locator.count: Target closed"), o)
  ELSE Seeing(StepReturns(<< VerifyTitle(o), VerifyWelcome(o), VerifySuccess(o) >>), o)

(***************************************************************************)
(* TC 001 of the suite from the await of step 5 on: the first four steps  *)
(* have PASSED, the verification meets any page.                          *)
(***************************************************************************)

RECURSIVE PassedSteps(_)
\* the records of the first n steps, each PASSED one tick after the other
PassedSteps(n) ==
  IF n = 0 THEN << >>
  ELSE Append(PassedSteps(n - 1),
              executeStep(NewStep(StepNames[n], n + 1),
                          StepReturns(CHOOSE v \in StepValues[n] : TRUE),
                          n + 2).step)

AtVerification ==
  [ Idle EXCEPT !.pc = "step", !.k = NumSteps,
                !.testCase = [ NewTestCase(2) EXCEPT !.steps = PassedSteps(NumSteps - 1) ],
                !.step = NewStep(StepNames[NumSteps], NumSteps + 1) ]

InitVerify ==
  /\ LoopUnused
  /\ HelpersUnused
  /\ browser = "open"
  /\ testResults = NewTestResults(1)
  /\ running = [ e \in Executions |-> IF e = 1 THEN AtVerification ELSE Idle ]
  /\ now = NumSteps + 1
  /\ runPc = "ready"
  /\ exitCode = NotExited
  /\ closeCalls = 0
  /\ report = NoReport

\* the step function of step 5 settles
VerifyEnds == \E o \in VerifyPages : StepEndsWith(1, verifyWelcomeMessage(o))

NextVerify == VerifyEnds \/ ScreenshotEnds(1)

SpecVerify == InitVerify /\ [][NextVerify]_vars

\* step 5 has ended PASSED in execution 1
VerificationPassed ==
  /\ running[1].ended.name = StepNames[NumSteps]
  /\ running[1].ended.status = "PASSED"

\* C40: when step 5 ends PASSED the welcome message for the generated
\* username is displayed, the success message or a success indicator is
\* present, and no line of the step's result is a failed verification.
C40_PassedMeansVerified ==
  VerificationPassed
    => LET o == running[1].outcome.seen
           lines == running[1].ended.result[1]
       IN  /\ running[1].testCase.status = "PASSED"
           /\ o.welcomeUser \/ o.welcomeVisible = "true"
           /\ \/ o.successCount.n > 0
              \/ includes(BodyTextOrEmpty(o), S_successfully)
              \/ includes(BodyTextOrEmpty(o), S_created)
           /\ \A i \in 1..Len(lines) : lines[i].passed

====
